---- MODULE Spec2Model ----
(***************************************************************************)
(* Model of the class-attendance and billing manager:                      *)
(*   - the remote relational store (lesson_schedules, attendance_records,  *)
(*     invoices, invoice_line_items, payments),                            *)
(*   - attendance.save (find-or-create schedule row, upsert attendance),   *)
(*   - the invoice generator (class-change effect, computeSummary,         *)
(*     handleGenerateAndSave),                                             *)
(*   - the payment tracker (processPayment).                               *)
(* Every await of the source is a step boundary: a remote call is one      *)
(* atomic step against the store, and steps of different browser tabs      *)
(* interleave.                                                             *)
(***************************************************************************)
EXTENDS Integers, Sequences, FiniteSets, TLC

\* ------------------------------------------------------------------------
\* Bounds of the model
\* ------------------------------------------------------------------------
\* number of attendance.save calls started in one behaviour
MaxCalls == 2
\* number of (student, date) cells of one attendance payload
MaxCells == 2
\* number of selector / rate-field changes the user makes in the invoice generator
MaxEdits == 4
\* number of computeSummary runs in flight at the same time
MaxRuns == 2
\* number of invoices the generator saves in one behaviour
MaxInvoices == 1
\* number of operations started in the payment tracker in one behaviour
MaxPayClicks == 3
\* number of edits of the payment amount field in one behaviour
MaxAmountEdits == 1
\* number of clicks in the class manager and on the attendance page in one behaviour
MaxClassClicks == 4
\* number of requests teachers send to the store in one behaviour
MaxRequests == 3
\* header clicks, logins and page reloads of one browser session
MaxNavClicks == 3
\* clicks on Add Student
MaxAdds == 2
\* class changes and cell toggles in the attendance grid
MaxGridClicks == 2
\* clicks on Save in the attendance grid
MaxSaves == 1

\* ------------------------------------------------------------------------
\* Domains
\* ------------------------------------------------------------------------
Tabs == {1, 2}
Classes == {"c1"}
Students == {"s1", "s2"}
\* an absent number or row id (null / undefined)
NULL == 0
\* an absent class or student id ('' / undefined)
NoId == ""
\* SQL NULL in a DECIMAL(10,2) rate column
NoRate == -1
\* the timezone offsets of the client, in hours east of UTC
TzOffsets == {-5, 0, 8}

\* ------------------------------------------------------------------------
\* State
\* ------------------------------------------------------------------------
VARIABLES
  \* the remote store
  lesson_schedules,    \* set of rows [id, class_id, student_id, lesson_date, hourly_rate]
  attendance_records,  \* set of rows [id, lesson_schedule_id, student_id, attended]
  nextId,              \* gen_random_uuid(): the next fresh row id
  \* attendance.save, one activation per tab
  aPc,                 \* position of the call: "idle" or the await it is suspended at
  aClass,              \* payload.class_id
  aPayload,            \* payload.data flattened to its date cells <<student, date, value>>
  aCells,              \* cells not yet processed
  aSched,              \* scheduleId
  aExisting,           \* existing?.id
  aUpdated,            \* updated
  aResult,             \* "none", "ok" (returned) or "error" (threw)
  \* history of the attendance calls
  overlap,             \* TRUE once a call has started while another was in flight
  callsStarted,
  materialized,        \* per triple: how many times find-or-create completed
  lastVal              \* per (schedule id, student): the last attendance write [v], the
                       \* one before it [prev] and the number of writes [n]

attVars == <<lesson_schedules, attendance_records, nextId, aPc, aClass, aPayload,
             aCells, aSched, aExisting, aUpdated, aResult, overlap, callsStarted,
             materialized, lastVal>>

VARIABLES
  \* the remote store, continued
  classes,             \* class id -> hourly_rate (an amount or NoRate)
  invoices,            \* set of rows [id, student_id, total_amount, status, number]
  invoice_line_items,  \* set of rows [id, invoice_id, quantity, unit_price, total_price]
  \* the client
  tz,                  \* timezone offset of the browser, hours east of UTC
  \* InvoiceGenerator component state
  igStudents,          \* students
  selectedClassId,
  selectedStudentId,
  selectedMonth,       \* yyyymm, NULL for ''
  hourlyRate,          \* text of the rate field
  summary,             \* <<>> for null, <<[attended, total, unit, subtotal]>> otherwise
  isBusy,
  igLoads,             \* class-change effects whose student load is in flight
  igRuns,              \* computeSummary activations in flight
  igSave,              \* handleGenerateAndSave activation, <<>> when there is none
  \* history of the invoice generator
  rateEdited,          \* the user has changed the rate field
  edits,               \* number of selector / rate-field changes so far
  summaryFor,          \* the inputs the current summary was computed from
  savedFrom,           \* invoice id -> the summary it was saved from
  igToast              \* last toast of the invoice generator

invVars == <<classes, invoices, invoice_line_items, tz, igStudents, selectedClassId,
             selectedStudentId, selectedMonth, hourlyRate, summary, isBusy, igLoads,
             igRuns, igSave, rateEdited, edits, summaryFor, savedFrom, igToast>>

VARIABLES
  \* the remote store, continued
  payments,            \* set of rows [id, invoice_id, student_id, amount, reference,
                       \* payment_date, created_at]
  \* PaymentTracker component state, one component per tab
  ptInvoices,          \* invoices: the InvoiceRow list as last loaded
  sumPaid,             \* sumPaid: invoice id -> paid sum as last loaded
  isDialogOpen,
  dialogInvoice,       \* <<>> for null, <<InvoiceRow>> otherwise
  paymentAmount,       \* text of the amount field
  isProcessing,
  selectedIds,         \* selectedIds: the ids ticked for the bulk delete
  ptOp,                \* the activation of processPayment, doUndoLastPayment,
                       \* doDeleteInvoice or doBulkDelete, <<>> when there is none
  ptToast,             \* description of the last toast
  \* history of the payment tracker
  rpcCalls,            \* calls of generate_payment_reference made
  payClicks,           \* clicks that called processPayment, doUndoLastPayment,
                       \* doDeleteInvoice or doBulkDelete so far
  amountEdits          \* edits of the amount field so far

payVars == <<payments, ptInvoices, sumPaid, isDialogOpen, dialogInvoice, paymentAmount,
             isProcessing, selectedIds, ptOp, ptToast, rpcCalls, payClicks, amountEdits>>

VARIABLES
  \* ClassManager component state
  cmClasses,           \* classes: class id -> student_count, as last set
  cmIsAddingClass,     \* isAddingClass: the add form is shown
  cmNewClass,          \* newClass: [class_name, hourly_rate], the texts of the form
  cmLoad,              \* the activation of loadClasses, <<>> when there is none
  cmAdds,              \* the activations of addClass in flight, in the order of
                       \* their clicks
  cmToast,             \* title of the last toast
  \* the attendance page (pages/Invoices.tsx)
  pgSelectedClass,     \* selectedClass?.class_id, NoId for null
  pgStudentList,       \* studentList: the student ids of the list
  pgLoad,              \* the activation of handleClassSelection, <<>> when there is none
  \* history of the two screens
  classClicks          \* clicks made on the two screens so far

cmVars == <<cmClasses, cmIsAddingClass, cmNewClass, cmLoad, cmAdds, cmToast,
            pgSelectedClass, pgStudentList, pgLoad, classClicks>>

VARIABLES
  \* the tables of two teachers behind the row-level security policies; a row
  \* carries the columns its policy and its foreign keys read
  rlsSchedules,        \* lesson_schedules: rows [class_id, student_id]
  rlsAttendance,       \* attendance_records: rows [schedule, student_id, by], by:
                       \* the teacher whose request inserted the row
  rlsInvoices,         \* invoices: rows [id, teacher_id, student_id]
  rlsPayments,         \* payments: rows [invoice_id, student_id]
  rlsLast,             \* the response to the last request: "", "ok" or "denied"
  rlsRequests          \* requests sent so far

rlsVars == <<rlsSchedules, rlsAttendance, rlsInvoices, rlsPayments, rlsLast,
             rlsRequests>>

VARIABLES
  \* one browser session on the routes of App
  authToken,           \* localStorage 'auth_token', "" when absent
  authUserId,          \* localStorage 'user_id', "" when absent
  lastClassId,         \* localStorage 'last_class_id', "" when absent
  pathname,            \* [route, classId]: the matched route and its :classId
  searchDate,          \* the ?date= query parameter as text, <<>> when absent
  today,               \* the calendar day of the session, [y, m, d]
  navClasses,          \* ids of the teacher's rows of the classes table
  index,               \* Index: "unmounted", "mounting", "login" or "content"
  am,                  \* the route-based AttendanceManager: <<>> when not
                       \* mounted, else <<its state>>
  logoutOp,            \* Header.handleLogout: "idle" or "signOut"
  navToast,            \* title of the last toast of the login form
  navClicks            \* header clicks, logins and reloads so far

navVars == <<authToken, authUserId, lastClassId, pathname, searchDate, today,
             navClasses, index, am, logoutOp, navToast, navClicks>>

VARIABLES
  \* StudentManager as rendered by one of its callers
  studentsTable,       \* ids of the rows of the students table
  smClassId,           \* the classId prop, "" when not given
  smPlanned,           \* the plannedDatesIso prop as a set of dates, {} for [] and
                       \* for a prop not given
  smStudents,          \* the students prop: ids of the list the caller holds
  smOp,                \* the activation of addStudent, <<>> when there is none
  smToast,             \* title of the last toast
  \* history
  smAdded,             \* the students whose addStudent ended with 'Student added'
  smClicks             \* clicks on Add Student so far

smVars == <<studentsTable, smClassId, smPlanned, smStudents, smOp, smToast, smAdded,
            smClicks>>

VARIABLES
  \* AttendanceGrid component
  gridClass,           \* the selectedClass.class_id prop
  gridMonth,           \* the selectedMonth prop, yyyymm
  gridLoads,           \* activations of the load effect in flight: [class_id,
                       \* month, stage, ignore, schedules]
  gridMembers,         \* activations of the membership effect in flight:
                       \* [class_id, ignore]
  dbDatesIso,          \* <<>> for null, <<set of dates>> otherwise
  attendanceData,      \* the keys <<student, date>> whose value is true
  enrolledIds,         \* <<>> for null, <<set of student ids>> otherwise
  gridSaving,          \* the activation of saveAttendance: <<>> or <<[class_id,
                       \* month, dates]>>
  gridCache,           \* localStorage 'lesson_dates:<class>:<month>' items
  gridToast,           \* title of the last toast
  \* history
  gridInitial,         \* attendance row id -> attended, as the grid was opened
  gridToggles,         \* cells toggled so far
  gridClicks           \* class changes and toggles so far

gridVars == <<gridClass, gridMonth, gridLoads, gridMembers, dbDatesIso, attendanceData,
              enrolledIds, gridSaving, gridCache, gridToast, gridInitial, gridToggles,
              gridClicks>>

\* the state of the parts of the program modelled further down
extVars == <<rlsVars, navVars, smVars, gridVars>>

vars == <<attVars, invVars, payVars, cmVars, extVars>>

\* what attendance.save keeps outside the store
attClientVars == <<aPc, aClass, aPayload, aCells, aSched, aExisting, aUpdated, aResult,
                   overlap, callsStarted, materialized, lastVal>>

\* what the invoice generator only reads, or never touches
invReadOnly == <<lesson_schedules, attendance_records, attClientVars, payVars, cmVars,
                 extVars>>

\* what the payment tracker never touches
payUntouched == <<lesson_schedules, attendance_records, attClientVars, classes,
                  tz, igStudents, selectedClassId,
                  selectedStudentId, selectedMonth, hourlyRate, summary, isBusy,
                  igLoads, igRuns, igSave, rateEdited, edits, summaryFor, savedFrom,
                  igToast, cmVars, extVars>>

\* ------------------------------------------------------------------------
\* Calendar dates are the integers yyyymmdd, months the integers yyyymm;
\* the store's DATE comparison is the integer comparison.
\* ------------------------------------------------------------------------
\* date keys an attendance payload can carry
AttDates == {20241201, 20241231}
\* students an attendance payload can carry
AttStudents == {"s1"}

Triples == Classes \X AttStudents \X AttDates

\* payload.data as the list of its date cells, in iteration order: one record
\* per student of the roster, one key per day, so no (student, date) repeats
Cells == AttStudents \X AttDates \X BOOLEAN

CellKey(c) == <<c[1], c[2]>>

Payloads ==
  { p \in UNION { [1..n -> Cells] : n \in 1..MaxCells } :
      \A i, j \in 1..Len(p) : i # j => CellKey(p[i]) # CellKey(p[j]) }

\* toISO(dateLike): a key that already is YYYY-MM-DD is returned as it is
toISO(k) == k

\* ------------------------------------------------------------------------
\* Store queries used by attendance.save
\* ------------------------------------------------------------------------
\* the lookup without its lesson_date filter
SchedMatches_NoDate(c, s, d) ==
  { r \in lesson_schedules : r.class_id = c /\ r.student_id = s }

\* the lookup with a filter no row satisfies
SchedMatches_Never(c, s, d) ==
  { r \in lesson_schedules : r.class_id = c /\ r.student_id = s /\ r.lesson_date = d
                              /\ r.id = NULL }

\* .from("lesson_schedules").eq(class_id).eq(student_id).eq(lesson_date)
SchedMatches(c, s, d) ==
  { r \in lesson_schedules : r.class_id = c /\ r.student_id = s /\ r.lesson_date = d }

\* the lookup keyed by the attendance row's own id instead of its schedule
AttMatches_ById(sid, s) ==
  { a \in attendance_records : a.id = sid /\ a.student_id = s }

\* .from("attendance_records").eq(lesson_schedule_id).eq(student_id)
AttMatches(sid, s) ==
  { a \in attendance_records : a.lesson_schedule_id = sid /\ a.student_id = s }

\* ------------------------------------------------------------------------
\* attendance.save
\* ------------------------------------------------------------------------
\* history: the call wrote value v for the key k = <<schedule id, student>>
Written(k, v) ==
  (k :> [v |-> v,
         prev |-> IF k \in DOMAIN lastVal THEN lastVal[k].v ELSE v,
         n |-> IF k \in DOMAIN lastVal THEN lastVal[k].n + 1 ELSE 1]) @@ lastVal

AttIdle(t) == aPc[t] = "idle"

\* the locals of the activation are gone once the call has settled
AttLocalsGone(t) ==
  /\ aClass' = [aClass EXCEPT ![t] = NoId]
  /\ aPayload' = [aPayload EXCEPT ![t] = <<>>]
  /\ aCells' = [aCells EXCEPT ![t] = <<>>]
  /\ aSched' = [aSched EXCEPT ![t] = NULL]
  /\ aExisting' = [aExisting EXCEPT ![t] = NULL]

\* the call throws: the promise rejects and nothing more is written
AttThrow(t) ==
  /\ aPc' = [aPc EXCEPT ![t] = "idle"]
  /\ aResult' = [aResult EXCEPT ![t] = "error"]
  /\ aUpdated' = [aUpdated EXCEPT ![t] = 0]
  /\ AttLocalsGone(t)

\* entry of attendance.save up to the first lookup: getUserId(), the class_id
\* check, updated = 0, and the start of the loops
AttSaveStart(t, c, p, authed) ==
  /\ callsStarted' = callsStarted + 1
  /\ overlap' = (overlap \/ \E u \in Tabs \ {t} : ~AttIdle(u))
  /\ IF ~authed \/ c = NoId \/ p = <<>>
       THEN IF ~authed \/ c = NoId
              THEN AttThrow(t)
              ELSE /\ aPc' = [aPc EXCEPT ![t] = "idle"]
                   /\ aResult' = [aResult EXCEPT ![t] = "ok"]
                   /\ aUpdated' = [aUpdated EXCEPT ![t] = 0]
                   /\ AttLocalsGone(t)
       ELSE /\ aPc' = [aPc EXCEPT ![t] = "findSched"]
            /\ aResult' = [aResult EXCEPT ![t] = "none"]
            /\ aClass' = [aClass EXCEPT ![t] = c]
            /\ aPayload' = [aPayload EXCEPT ![t] = p]
            /\ aCells' = [aCells EXCEPT ![t] = p]
            /\ aUpdated' = [aUpdated EXCEPT ![t] = 0]
            /\ aSched' = [aSched EXCEPT ![t] = NULL]
            /\ aExisting' = [aExisting EXCEPT ![t] = NULL]

\* attendance.save called with any class id and payload
AttSave(t) ==
  /\ AttIdle(t)
  /\ callsStarted < MaxCalls
  /\ \E c \in Classes \cup {NoId}, p \in Payloads, authed \in BOOLEAN :
       AttSaveStart(t, c, p, authed)
  /\ UNCHANGED <<lesson_schedules, attendance_records, nextId,
                 materialized, lastVal>>
  /\ UNCHANGED <<invVars, payVars, cmVars, extVars>>

\* 1) lookup of the schedule row with maybeSingle(): more than one matching row
\* is an error, no row is null
AttFindSched(t) ==
  /\ aPc[t] = "findSched"
  /\ LET cell == Head(aCells[t])
         found == SchedMatches(aClass[t], cell[1], toISO(cell[2]))
     IN  IF Cardinality(found) > 1
           THEN /\ AttThrow(t)
                /\ UNCHANGED materialized
           ELSE IF found = {}
             THEN /\ aPc' = [aPc EXCEPT ![t] = "insSched"]
                  /\ aSched' = [aSched EXCEPT ![t] = NULL]
                  /\ UNCHANGED <<aResult, materialized, aClass, aPayload, aCells,
                                 aExisting, aUpdated>>
             ELSE /\ aPc' = [aPc EXCEPT ![t] = "findAtt"]
                  /\ aSched' = [aSched EXCEPT ![t] = (CHOOSE r \in found : TRUE).id]
                  /\ materialized' =
                       [materialized EXCEPT ![<<aClass[t], cell[1], toISO(cell[2])>>] = @ + 1]
                  /\ UNCHANGED <<aResult, aClass, aPayload, aCells, aExisting, aUpdated>>
  /\ UNCHANGED <<lesson_schedules, attendance_records, nextId, overlap,
                 callsStarted, lastVal>>
  /\ UNCHANGED <<invVars, payVars, cmVars, extVars>>

\* insert of the missing schedule row; the table has no unique constraint on
\* (class_id, student_id, lesson_date), so the insert never conflicts
AttInsSched(t) ==
  /\ aPc[t] = "insSched"
  /\ LET cell == Head(aCells[t])
         tr == <<aClass[t], cell[1], toISO(cell[2])>>
     IN  /\ lesson_schedules' = lesson_schedules \cup
              { [id |-> nextId, class_id |-> tr[1], student_id |-> tr[2],
                 lesson_date |-> tr[3], hourly_rate |-> NoRate] }
         /\ nextId' = nextId + 1
         /\ aSched' = [aSched EXCEPT ![t] = nextId]
         /\ materialized' = [materialized EXCEPT ![tr] = @ + 1]
  /\ aPc' = [aPc EXCEPT ![t] = "findAtt"]
  /\ UNCHANGED <<attendance_records, aClass, aPayload, aCells, aExisting, aUpdated,
                 aResult, overlap, callsStarted, lastVal>>
  /\ UNCHANGED <<invVars, payVars, cmVars, extVars>>

\* 2) lookup of the attendance row of (scheduleId, student_id) with maybeSingle()
AttFindAtt(t) ==
  /\ aPc[t] = "findAtt"
  /\ LET cell == Head(aCells[t])
         existing == AttMatches(aSched[t], cell[1])
     IN  IF Cardinality(existing) > 1
           THEN AttThrow(t)
           ELSE /\ aPc' = [aPc EXCEPT ![t] = IF existing = {} THEN "insAtt" ELSE "updAtt"]
                /\ aExisting' = [aExisting EXCEPT ![t] =
                     IF existing = {} THEN NULL ELSE (CHOOSE a \in existing : TRUE).id]
                /\ UNCHANGED <<aResult, aClass, aPayload, aCells, aSched, aUpdated>>
  /\ UNCHANGED <<lesson_schedules, attendance_records, nextId, overlap,
                 callsStarted, materialized, lastVal>>
  /\ UNCHANGED <<invVars, payVars, cmVars, extVars>>

\* the return placed inside the loop: ok after the first cell
AttNextCell_ReturnEarly(t) ==
  /\ aUpdated' = [aUpdated EXCEPT ![t] = @ + 1]
  /\ aPc' = [aPc EXCEPT ![t] = "idle"]
  /\ aResult' = [aResult EXCEPT ![t] = "ok"]
  /\ AttLocalsGone(t)

\* updated += 1 and the next iteration, or the return of { ok: true, updated }
AttNextCell(t) ==
  /\ aUpdated' = [aUpdated EXCEPT ![t] = @ + 1]
  /\ IF Tail(aCells[t]) = <<>>
       THEN /\ aPc' = [aPc EXCEPT ![t] = "idle"]
            /\ aResult' = [aResult EXCEPT ![t] = "ok"]
            /\ AttLocalsGone(t)
       ELSE /\ aPc' = [aPc EXCEPT ![t] = "findSched"]
            /\ aCells' = [aCells EXCEPT ![t] = Tail(@)]
            /\ UNCHANGED <<aResult, aClass, aPayload, aSched, aExisting>>

\* update of the row found: .update({ attended, ... }).eq("id", existing.id)
AttUpdate(t) ==
  /\ aPc[t] = "updAtt"
  /\ LET cell == Head(aCells[t])
     IN  /\ attendance_records' =
              { IF a.id = aExisting[t] THEN [a EXCEPT !.attended = cell[3]] ELSE a :
                  a \in attendance_records }
         /\ lastVal' = Written(<<aSched[t], cell[1]>>, cell[3])
  /\ AttNextCell(t)
  /\ UNCHANGED <<lesson_schedules, nextId, overlap, callsStarted, materialized>>
  /\ UNCHANGED <<invVars, payVars, cmVars, extVars>>

\* insert of a new attendance row; the table has no unique constraint on
\* lesson_schedule_id
AttInsert(t) ==
  /\ aPc[t] = "insAtt"
  /\ LET cell == Head(aCells[t])
     IN  /\ attendance_records' = attendance_records \cup
              { [id |-> nextId, lesson_schedule_id |-> aSched[t],
                 student_id |-> cell[1], attended |-> cell[3]] }
         /\ nextId' = nextId + 1
         /\ lastVal' = Written(<<aSched[t], cell[1]>>, cell[3])
  /\ AttNextCell(t)
  /\ UNCHANGED <<lesson_schedules, overlap, callsStarted, materialized>>
  /\ UNCHANGED <<invVars, payVars, cmVars, extVars>>

\* any of the remote calls returns an error: `throw new Error(...)`
AttRemoteError(t) ==
  /\ ~AttIdle(t)
  /\ AttThrow(t)
  /\ UNCHANGED <<lesson_schedules, attendance_records, nextId, overlap,
                 callsStarted, materialized, lastVal>>
  /\ UNCHANGED <<invVars, payVars, cmVars, extVars>>

\* ------------------------------------------------------------------------
\* Money is counted in thousandths of the currency unit, so that a rate typed
\* with three decimals and the rounding of a DECIMAL(10,2) column are visible.
\* ------------------------------------------------------------------------
\* what a DECIMAL(10,2) column stores for a non-negative amount: two decimals,
\* half away from zero
Decimal2(x) == ((x + 5) \div 10) * 10

\* Number(x) of a nullable numeric column: Number(null) is 0
Number(x) == IF x = NoRate THEN 0 ELSE x

\* texts the rate field can hold
RateTexts == {"", "0", "12.345", "20"}

\* a JavaScript number: NaN / undefined have finite = FALSE
NaN == [finite |-> FALSE, val |-> 0]
Num(v) == [finite |-> TRUE, val |-> v]

\* texts the payment amount field can hold
AmountTexts == {"", "0", "-5", "50", "100"}

\* parseFloat(text) / Number.parseFloat(String(text).trim())
parseFloat(txt) ==
  CASE txt = "" -> NaN
    [] txt = "0" -> Num(0)
    [] txt = "-5" -> Num(-5000)
    [] txt = "12.345" -> Num(12345)
    [] txt = "20" -> Num(20000)
    [] txt = "50" -> Num(50000)
    [] txt = "100" -> Num(100000)

\* String(n) of a number
String(n) ==
  CASE n = 0 -> "0"
    [] n = 20000 -> "20"
    [] n = 50000 -> "50"
    [] n = 100000 -> "100"

\* ------------------------------------------------------------------------
\* Month arithmetic of the invoice generator
\* ------------------------------------------------------------------------
Months == {202412, 202501}

IsLeap(y) == (y % 4 = 0 /\ y % 100 # 0) \/ y % 400 = 0

DaysInMonth(y, m) ==
  IF m = 2 THEN (IF IsLeap(y) THEN 29 ELSE 28)
  ELSE IF m \in {4, 6, 9, 11} THEN 30 ELSE 31

\* firstDayISO(ym) = `${ym}-01`
firstDayISO(ym) == ym * 100 + 1

\* new Date(y, m, 1): local midnight of the first day of the month after (y, m);
\* month index 12 rolls over to January of y + 1
LocalFirstOfNext(y, m) ==
  IF m = 12 THEN (y + 1) * 10000 + 101 ELSE y * 10000 + (m + 1) * 100 + 1

\* d.toISOString().slice(0, 10) of a local midnight: the UTC calendar day, which
\* is the day before when the client is east of UTC
UtcDayOfLocalMidnight(localDay, prevDay, offset) ==
  IF offset > 0 THEN prevDay ELSE localDay

\* nextMonthISO(ym)
nextMonthISO(ym) ==
  LET y == ym \div 100
      m == ym % 100
  IN  UtcDayOfLocalMidnight(LocalFirstOfNext(y, m),
                            y * 10000 + m * 100 + DaysInMonth(y, m), tz)

\* ------------------------------------------------------------------------
\* computeSummary: queries and rate precedence
\* ------------------------------------------------------------------------
\* lesson_schedules .eq(class_id).eq(student_id).gte(lesson_date, start).lt(lesson_date, end)
SchedulesInRange(c, s, startISO, endISO) ==
  { r \in lesson_schedules :
      /\ r.class_id = c /\ r.student_id = s
      /\ r.lesson_date >= startISO /\ r.lesson_date < endISO }

\* the orders in which .order('lesson_date') can return a set of rows
OrderedByDate(S) ==
  { q \in [1..Cardinality(S) -> S] :
      /\ \A i, j \in 1..Cardinality(S) : i # j => q[i] # q[j]
      /\ \A i, j \in 1..Cardinality(S) : i < j => q[i].lesson_date <= q[j].lesson_date }

\* attendance_records .in(lesson_schedule_id, ids).eq(student_id), then
\* .filter(a => a.attended).length
AttendedCount(ids, s) ==
  Cardinality({ a \in attendance_records :
                  a.lesson_schedule_id \in ids /\ a.student_id = s /\ a.attended })

\* (schedules).map(s => Number(s.hourly_rate)).find(n => Number.isFinite(n) && n > 0)
perLessonRate(scheds) ==
  LET pos == { i \in 1..Len(scheds) : Number(scheds[i].hourly_rate) > 0 }
  IN  IF pos = {} THEN NaN
      ELSE Num(Number(scheds[CHOOSE i \in pos : \A k \in pos : i <= k].hourly_rate))

\* Number(classes.find(c => c.id === selectedClassId)?.hourly_rate ?? 0)
classRate(c) == IF c \in DOMAIN classes THEN Number(classes[c]) ELSE 0

\* const unit = override > 0 ? override : finite(perLesson) ? perLesson : classRate
unitRate(rateText, scheds, c) ==
  LET overrideRate == parseFloat(rateText)
  IN  IF overrideRate.finite /\ overrideRate.val > 0 THEN overrideRate.val
      ELSE IF perLessonRate(scheds).finite THEN perLessonRate(scheds).val
      ELSE classRate(c)

\* { attended, total, unit, subtotal: attended * (unit || 0) }
MakeSummary(attended, total, unit) ==
  [attended |-> attended, total |-> total, unit |-> unit, subtotal |-> attended * unit]

\* ------------------------------------------------------------------------
\* InvoiceGenerator: selectors and effects
\* ------------------------------------------------------------------------
\* the "recompute summary" effect, run with the values of the new render:
\* computeSummary() when the three selectors are filled (it begins with
\* setSummary(null) and captures the values of its render), setSummary(null)
\* otherwise
Recompute(c, st, m, rateText) ==
  /\ summary' = <<>>
  /\ summaryFor' = <<>>
  /\ IF c # NoId /\ st # NoId /\ m # NULL
       THEN /\ Cardinality(igRuns) < MaxRuns
            /\ igRuns' = igRuns \cup
                 { [cls |-> c, stu |-> st, month |-> m, rate |-> rateText,
                    stage |-> "schedules", scheds |-> <<>>] }
       ELSE UNCHANGED igRuns

\* the class Select changes: the class-change effect resets students, student
\* and summary, seeds the rate field from the class and starts the student load
SelectClass(c) ==
  /\ edits < MaxEdits
  /\ c \in DOMAIN classes
  /\ c # selectedClassId
  /\ edits' = edits + 1
  /\ selectedClassId' = c
  /\ igStudents' = {}
  /\ selectedStudentId' = NoId
  /\ hourlyRate' = IF classes[c] # NoRate THEN String(classes[c]) ELSE hourlyRate
  /\ igLoads' = igLoads \cup {c}
  /\ Recompute(c, NoId, selectedMonth, hourlyRate')
  /\ UNCHANGED <<classes, invoices, invoice_line_items, tz, selectedMonth, isBusy,
                 igSave, rateEdited, savedFrom, igToast>>
  /\ UNCHANGED <<nextId, invReadOnly>>

\* the student load of a class-change effect completes: distinct student ids of
\* the class's schedule rows, then the students with these ids; or it fails
StudentsLoaded(c) ==
  /\ c \in igLoads
  /\ igLoads' = igLoads \ {c}
  /\ \E ok \in BOOLEAN :
       IF ok
         THEN /\ igStudents' = { r.student_id : r \in { x \in lesson_schedules : x.class_id = c } }
              /\ UNCHANGED igToast
         ELSE /\ igToast' = "Could not load students for this class"
              /\ UNCHANGED igStudents
  /\ UNCHANGED <<classes, invoices, invoice_line_items, tz, selectedClassId,
                 selectedStudentId, selectedMonth, hourlyRate, summary, isBusy,
                 igRuns, igSave, rateEdited, edits, summaryFor, savedFrom>>
  /\ UNCHANGED <<nextId, invReadOnly>>

\* the student Select changes (it is disabled until a class is selected)
SelectStudent(st) ==
  /\ edits < MaxEdits
  /\ selectedClassId # NoId
  /\ st \in igStudents
  /\ st # selectedStudentId
  /\ edits' = edits + 1
  /\ selectedStudentId' = st
  /\ Recompute(selectedClassId, st, selectedMonth, hourlyRate)
  /\ UNCHANGED <<classes, invoices, invoice_line_items, tz, igStudents,
                 selectedClassId, selectedMonth, hourlyRate, isBusy, igLoads,
                 igSave, rateEdited, savedFrom, igToast>>
  /\ UNCHANGED <<nextId, invReadOnly>>

\* the month input changes
SelectMonth(m) ==
  /\ edits < MaxEdits
  /\ m \in Months
  /\ m # selectedMonth
  /\ edits' = edits + 1
  /\ selectedMonth' = m
  /\ Recompute(selectedClassId, selectedStudentId, m, hourlyRate)
  /\ UNCHANGED <<classes, invoices, invoice_line_items, tz, igStudents,
                 selectedClassId, selectedStudentId, hourlyRate, isBusy, igLoads,
                 igSave, rateEdited, savedFrom, igToast>>
  /\ UNCHANGED <<nextId, invReadOnly>>

\* the user types into the rate field
EditRate(txt) ==
  /\ edits < MaxEdits
  /\ txt \in RateTexts
  /\ txt # hourlyRate
  /\ edits' = edits + 1
  /\ hourlyRate' = txt
  /\ rateEdited' = TRUE
  /\ Recompute(selectedClassId, selectedStudentId, selectedMonth, txt)
  /\ UNCHANGED <<classes, invoices, invoice_line_items, tz, igStudents,
                 selectedClassId, selectedStudentId, selectedMonth, isBusy, igLoads,
                 igSave, savedFrom, igToast>>
  /\ UNCHANGED <<nextId, invReadOnly>>

\* ------------------------------------------------------------------------
\* computeSummary
\* ------------------------------------------------------------------------
\* setSummary({ attended, total, unit, subtotal })
SetSummary(run, scheds, attended) ==
  /\ summary' = << MakeSummary(attended, Len(scheds),
                               unitRate(run.rate, scheds, run.cls)) >>
  /\ summaryFor' = << [cls |-> run.cls, stu |-> run.stu, month |-> run.month,
                       rate |-> run.rate] >>

\* the schedules read returns; with no rows the attendance read is skipped
SummarySchedules(run) ==
  /\ run \in igRuns
  /\ run.stage = "schedules"
  /\ \E scheds \in OrderedByDate(SchedulesInRange(run.cls, run.stu,
                                   firstDayISO(run.month), nextMonthISO(run.month))) :
       IF Len(scheds) = 0
         THEN /\ igRuns' = igRuns \ {run}
              /\ SetSummary(run, scheds, 0)
         ELSE /\ igRuns' = (igRuns \ {run}) \cup
                   { [run EXCEPT !.stage = "attendance", !.scheds = scheds] }
              /\ UNCHANGED <<summary, summaryFor>>
  /\ UNCHANGED <<classes, invoices, invoice_line_items, tz, igStudents,
                 selectedClassId, selectedStudentId, selectedMonth, hourlyRate,
                 isBusy, igLoads, igSave, rateEdited, edits, savedFrom, igToast>>
  /\ UNCHANGED <<nextId, invReadOnly>>

\* the attendance read returns and the summary is set
SummaryAttendance(run) ==
  /\ run \in igRuns
  /\ run.stage = "attendance"
  /\ igRuns' = igRuns \ {run}
  /\ SetSummary(run, run.scheds,
                AttendedCount({ run.scheds[i].id : i \in 1..Len(run.scheds) }, run.stu))
  /\ UNCHANGED <<classes, invoices, invoice_line_items, tz, igStudents,
                 selectedClassId, selectedStudentId, selectedMonth, hourlyRate,
                 isBusy, igLoads, igSave, rateEdited, edits, savedFrom, igToast>>
  /\ UNCHANGED <<nextId, invReadOnly>>

\* one of the two reads fails: the catch block toasts, no summary is set
SummaryError(run) ==
  /\ run \in igRuns
  /\ igRuns' = igRuns \ {run}
  /\ igToast' = "Failed to compute invoice"
  /\ UNCHANGED <<classes, invoices, invoice_line_items, tz, igStudents,
                 selectedClassId, selectedStudentId, selectedMonth, hourlyRate,
                 summary, isBusy, igLoads, igSave, rateEdited, edits, summaryFor,
                 savedFrom>>
  /\ UNCHANGED <<nextId, invReadOnly>>

\* ------------------------------------------------------------------------
\* Reference numbers: the remote function and the local fallback
\* ------------------------------------------------------------------------
\* `if (!err && data) ref = String(data)`: the value the remote function
\* returned, none when it returned an error or an empty value or threw
Fetched(outcome, remote, none) == IF outcome = "value" THEN remote ELSE none

\* the reference left without its fallback
OrFallback_Missing(ref, none, local) == ref

\* `if (!ref) ref = <local pattern>`
OrFallback(ref, none, local) == IF ref = none THEN local ELSE ref

\* ------------------------------------------------------------------------
\* handleGenerateAndSave
\* ------------------------------------------------------------------------
\* the button is disabled while there is no summary or isBusy
GenerateClick ==
  /\ summary # <<>>
  /\ ~isBusy
  /\ selectedClassId # NoId /\ selectedStudentId # NoId /\ selectedMonth # NULL
  /\ Cardinality(invoices) < MaxInvoices
  /\ isBusy' = TRUE
  /\ igSave' = << [stage |-> "auth", summary |-> summary[1],
                   student |-> selectedStudentId, number |-> "", invoice |-> NULL] >>
  /\ UNCHANGED <<classes, invoices, invoice_line_items, tz, igStudents,
                 selectedClassId, selectedStudentId, selectedMonth, hourlyRate,
                 summary, igLoads, igRuns, rateEdited, edits, summaryFor,
                 savedFrom, igToast, nextId>>
  /\ UNCHANGED invReadOnly

\* catch + finally of handleGenerateAndSave
GenerateFailed ==
  /\ igToast' = "Could not save invoice"
  /\ isBusy' = FALSE
  /\ igSave' = <<>>

\* supabase.auth.getUser(): without a user the handler throws
GenerateAuth ==
  /\ igSave # <<>> /\ igSave[1].stage = "auth"
  /\ \E authed \in BOOLEAN :
       IF authed
         THEN /\ igSave' = << [igSave[1] EXCEPT !.stage = "rpc"] >>
              /\ UNCHANGED <<isBusy, igToast>>
         ELSE GenerateFailed
  /\ UNCHANGED <<classes, invoices, invoice_line_items, tz, igStudents,
                 selectedClassId, selectedStudentId, selectedMonth, hourlyRate,
                 summary, igLoads, igRuns, rateEdited, edits, summaryFor,
                 savedFrom, nextId>>
  /\ UNCHANGED invReadOnly

\* rpc('generate_invoice_number') with the local fallback `INV-${y}-…`
GenerateNumber ==
  /\ igSave # <<>> /\ igSave[1].stage = "rpc"
  /\ \E outcome \in {"value", "error", "empty", "throws"} :
       igSave' = << [igSave[1] EXCEPT
                       !.stage = "insertInvoice",
                       !.number = OrFallback(Fetched(outcome, "remote", ""),
                                             "", "local")] >>
  /\ UNCHANGED <<classes, invoices, invoice_line_items, tz, igStudents,
                 selectedClassId, selectedStudentId, selectedMonth, hourlyRate,
                 summary, isBusy, igLoads, igRuns, rateEdited, edits, summaryFor,
                 savedFrom, igToast, nextId>>
  /\ UNCHANGED invReadOnly

\* insert into invoices, total_amount: summary.subtotal into a DECIMAL(10,2)
\* column, status 'draft'
GenerateInsertInvoice ==
  /\ igSave # <<>> /\ igSave[1].stage = "insertInvoice"
  /\ invoices' = invoices \cup
       { [id |-> nextId, student_id |-> igSave[1].student,
          total_amount |-> Decimal2(igSave[1].summary.subtotal),
          status |-> "draft", number |-> igSave[1].number] }
  /\ savedFrom' = (nextId :> igSave[1].summary) @@ savedFrom
  /\ nextId' = nextId + 1
  /\ igSave' = << [igSave[1] EXCEPT !.stage = "insertLine", !.invoice = nextId] >>
  /\ UNCHANGED <<classes, invoice_line_items, tz, igStudents,
                 selectedClassId, selectedStudentId, selectedMonth, hourlyRate,
                 summary, isBusy, igLoads, igRuns, rateEdited, edits, summaryFor,
                 igToast>>
  /\ UNCHANGED invReadOnly

\* insert of the one consolidated line item, then the success toast
GenerateInsertLine ==
  /\ igSave # <<>> /\ igSave[1].stage = "insertLine"
  /\ invoice_line_items' = invoice_line_items \cup
       { [id |-> nextId, invoice_id |-> igSave[1].invoice,
          quantity |-> igSave[1].summary.attended,
          unit_price |-> Decimal2(igSave[1].summary.unit),
          total_price |-> Decimal2(igSave[1].summary.subtotal)] }
  /\ nextId' = nextId + 1
  /\ igToast' = "Invoice saved"
  /\ isBusy' = FALSE
  /\ igSave' = <<>>
  /\ UNCHANGED <<classes, invoices, tz, igStudents,
                 selectedClassId, selectedStudentId, selectedMonth, hourlyRate,
                 summary, igLoads, igRuns, rateEdited, edits, summaryFor,
                 savedFrom>>
  /\ UNCHANGED invReadOnly

\* an insert returns an error: throw into the catch block
GenerateError ==
  /\ igSave # <<>> /\ igSave[1].stage \in {"insertInvoice", "insertLine"}
  /\ GenerateFailed
  /\ UNCHANGED <<classes, invoices, invoice_line_items, tz, igStudents,
                 selectedClassId, selectedStudentId, selectedMonth, hourlyRate,
                 summary, igLoads, igRuns, rateEdited, edits, summaryFor,
                 savedFrom, nextId>>
  /\ UNCHANGED invReadOnly

\* ------------------------------------------------------------------------
\* PaymentTracker
\* ------------------------------------------------------------------------
Statuses == {"draft", "sent", "paid", "overdue", "cancelled"}

\* the tabs in which a user works with the payment tracker
PayTabs == {1}

\* the sum of the amounts of a set of payment rows
RECURSIVE SumAmounts(_)
SumAmounts(rows) ==
  IF rows = {} THEN 0
  ELSE LET r == CHOOSE x \in rows : TRUE
       IN  r.amount + SumAmounts(rows \ {r})

\* sumPaid[id] || 0
PaidOf(t, id) == IF id \in DOMAIN sumPaid[t] THEN sumPaid[t][id] ELSE 0

\* remainingDue(inv) = Math.max(0, inv.total_amount - (sumPaid[inv.id] || 0))
remainingDue(t, inv) ==
  IF inv.total_amount - PaidOf(t, inv.id) > 0
    THEN inv.total_amount - PaidOf(t, inv.id) ELSE 0

\* the InvoiceRow of an invoices row: total_amount: Number(inv.total_amount) || 0
InvoiceRowOf(inv) ==
  [id |-> inv.id, student_id |-> inv.student_id, total_amount |-> inv.total_amount,
   status |-> inv.status]

\* the validation with the zero amount let through
ValidAmount_ZeroAllowed(amount) == amount.finite /\ ~(amount.val < 0)

\* !(!isFinite(amount) || amount <= 0)
ValidAmount(amount) == amount.finite /\ ~(amount.val <= 0)

\* loading: true from the start of loadInvoices to its finally
Loading(t) == ptOp[t] # <<>> /\ ptOp[t][1].stage \in {"loadInvoices", "loadPayments"}

\* the rows of the list can be clicked: the list is rendered (not loading) and
\* no modal dialog covers it
ListShown(t) == ~Loading(t) /\ ~isDialogOpen[t]

\* payment_date DEFAULT CURRENT_DATE: the day of the server clock, two ticks
\* of the clock to a day
DateOf(ts) == ts \div 2

\* the activation record of an operation, with the store as it was at its start
NewOp(t, kind, stage, inv) ==
  [kind |-> kind, stage |-> stage, inv |-> inv, amount |-> 0,
   paid |-> PaidOf(t, inv.id), sums |-> sumPaid[t], ids |-> selectedIds[t],
   reference |-> <<>>, last |-> <<>>,
   before |-> [payments |-> payments, invoices |-> invoices]]

\* The clicks that start no operation (opening and closing the dialog, typing
\* an amount, ticking rows) are followed while the behaviour can still start
\* an operation: payClicks < MaxPayClicks.

\* the stage of the operation of tab t, "" when there is none
Stage(t) == IF ptOp[t] = <<>> THEN "" ELSE ptOp[t][1].stage

\* the catch block with one description for every error
PaymentFailed_OneMessage(t, message) ==
  /\ ptToast' = [ptToast EXCEPT ![t] = "Could not undo payment"]
  /\ isProcessing' = [isProcessing EXCEPT ![t] = FALSE]
  /\ ptOp' = [ptOp EXCEPT ![t] = <<>>]

\* catch + finally of processPayment and of the do... handlers
PaymentFailed(t, message) ==
  /\ ptToast' = [ptToast EXCEPT ![t] = message]
  /\ isProcessing' = [isProcessing EXCEPT ![t] = FALSE]
  /\ ptOp' = [ptOp EXCEPT ![t] = <<>>]

\* "Record Payment" on a row (rendered while inv.status !== 'paid', never
\* disabled): openPaymentDialog(inv)
OpenPaymentDialog(t, inv) ==
  /\ payClicks < MaxPayClicks
  /\ inv \in ptInvoices[t]
  /\ ListShown(t)
  /\ inv.status # "paid"
  /\ dialogInvoice' = [dialogInvoice EXCEPT ![t] = <<inv>>]
  /\ paymentAmount' = [paymentAmount EXCEPT ![t] =
       String(IF remainingDue(t, inv) # 0 THEN remainingDue(t, inv) ELSE inv.total_amount)]
  /\ isDialogOpen' = [isDialogOpen EXCEPT ![t] = TRUE]
  /\ UNCHANGED <<payments, invoices, invoice_line_items, nextId, ptInvoices, sumPaid,
                 isProcessing, selectedIds, ptOp, ptToast, rpcCalls, payClicks,
                 amountEdits>>
  /\ UNCHANGED payUntouched

\* the dialog is dismissed: onOpenChange(false)
ClosePaymentDialog(t) ==
  /\ payClicks < MaxPayClicks
  /\ isDialogOpen[t]
  /\ isDialogOpen' = [isDialogOpen EXCEPT ![t] = FALSE]
  /\ UNCHANGED <<payments, invoices, invoice_line_items, nextId, ptInvoices, sumPaid,
                 dialogInvoice, paymentAmount, isProcessing, selectedIds, ptOp, ptToast,
                 rpcCalls, payClicks, amountEdits>>
  /\ UNCHANGED payUntouched

\* the user types into the amount field of the open dialog
EditPaymentAmount(t, txt) ==
  /\ payClicks < MaxPayClicks
  /\ isDialogOpen[t]
  /\ txt \in AmountTexts
  /\ txt # paymentAmount[t]
  /\ amountEdits < MaxAmountEdits
  /\ amountEdits' = amountEdits + 1
  /\ paymentAmount' = [paymentAmount EXCEPT ![t] = txt]
  /\ UNCHANGED <<payments, invoices, invoice_line_items, nextId, ptInvoices, sumPaid,
                 isDialogOpen, dialogInvoice, isProcessing, selectedIds, ptOp, ptToast,
                 rpcCalls, payClicks>>
  /\ UNCHANGED payUntouched

\* the checkbox of a row: toggleSelect(id)
ToggleSelect(t, id) ==
  /\ payClicks < MaxPayClicks
  /\ ListShown(t)
  /\ id \in { r.id : r \in ptInvoices[t] }
  /\ selectedIds' = [selectedIds EXCEPT ![t] =
       IF id \in @ THEN @ \ {id} ELSE @ \cup {id}]
  /\ UNCHANGED <<payments, invoices, invoice_line_items, nextId, ptInvoices, sumPaid,
                 isDialogOpen, dialogInvoice, paymentAmount, isProcessing, ptOp, ptToast,
                 rpcCalls, payClicks, amountEdits>>
  /\ UNCHANGED payUntouched

\* the "Select all" checkbox of the header: toggleSelectAll()
ToggleSelectAll(t) ==
  /\ payClicks < MaxPayClicks
  /\ ~isDialogOpen[t]
  /\ LET shown == { r.id : r \in ptInvoices[t] }
         allSelected == shown # {} /\ Cardinality(selectedIds[t]) = Cardinality(shown)
     IN  selectedIds' = [selectedIds EXCEPT ![t] = IF allSelected THEN {} ELSE shown]
  /\ UNCHANGED <<payments, invoices, invoice_line_items, nextId, ptInvoices, sumPaid,
                 isDialogOpen, dialogInvoice, paymentAmount, isProcessing, ptOp, ptToast,
                 rpcCalls, payClicks, amountEdits>>
  /\ UNCHANGED payUntouched

\* click on "Record Payment" in the dialog (disabled while isProcessing):
\* processPayment up to its first await; an invalid amount throws before any
\* remote call
ProcessPayment(t) ==
  /\ isDialogOpen[t]
  /\ ~isProcessing[t]
  /\ dialogInvoice[t] # <<>>
  /\ payClicks < MaxPayClicks
  /\ payClicks' = payClicks + 1
  /\ LET amount == parseFloat(paymentAmount[t])
         inv == dialogInvoice[t][1]
     IN  IF ValidAmount(amount)
           THEN /\ isProcessing' = [isProcessing EXCEPT ![t] = TRUE]
                /\ ptOp' = [ptOp EXCEPT ![t] =
                     << [NewOp(t, "pay", "rpc", inv) EXCEPT !.amount = amount.val] >>]
                /\ UNCHANGED ptToast
           ELSE PaymentFailed(t, "Invalid payment amount")
  /\ UNCHANGED <<payments, invoices, invoice_line_items, nextId, ptInvoices, sumPaid,
                 isDialogOpen, dialogInvoice, paymentAmount, selectedIds, rpcCalls,
                 amountEdits>>
  /\ UNCHANGED payUntouched

\* the number generate_payment_reference() returns: one more than the largest
\* number among the stored references
NextReference ==
  LET used == { p.reference[2] : p \in { x \in payments : x.reference[1] = "PAY-remote" } }
  IN  IF used = {} THEN 1 ELSE (CHOOSE n \in used : \A k \in used : k <= n) + 1

\* rpc('generate_payment_reference') returns a value, returns an error, returns
\* nothing or throws; in the last three cases the reference is `PAY-${y}-${rand}`
PaymentReference(t) ==
  /\ Stage(t) = "rpc"
  /\ rpcCalls' = rpcCalls + 1
  /\ \E outcome \in {"value", "error", "empty", "throws"}, rand \in 1..2 :
       ptOp' = [ptOp EXCEPT ![t] =
         << [ptOp[t][1] EXCEPT
               !.stage = "insert",
               !.reference = OrFallback(
                                Fetched(outcome, <<"PAY-remote", NextReference>>, <<>>),
                                <<>>, <<"PAY-local", rand>>)] >>]
  /\ UNCHANGED <<payments, invoices, invoice_line_items, nextId, ptInvoices, sumPaid,
                 isDialogOpen, dialogInvoice, paymentAmount, isProcessing, selectedIds,
                 ptToast, payClicks, amountEdits>>
  /\ UNCHANGED payUntouched

\* insert into payments; payment_reference is UNIQUE, invoice_id REFERENCES
\* invoices, amount is DECIMAL(10,2), payment_date and created_at are the
\* server's date and clock
PaymentInsert(t) ==
  /\ Stage(t) = "insert"
  /\ LET op == ptOp[t][1]
     IN  IF \/ \E p \in payments : p.reference = op.reference
            \/ ~\E i \in invoices : i.id = op.inv.id
           THEN /\ PaymentFailed(t, "Could not record payment")
                /\ UNCHANGED <<payments, nextId>>
           ELSE /\ payments' = payments \cup
                     { [id |-> nextId, invoice_id |-> op.inv.id,
                        student_id |-> op.inv.student_id,
                        amount |-> Decimal2(op.amount), reference |-> op.reference,
                        payment_date |-> DateOf(nextId), created_at |-> nextId] }
                /\ nextId' = nextId + 1
                /\ ptOp' = [ptOp EXCEPT ![t] = << [op EXCEPT !.stage = "status"] >>]
                /\ UNCHANGED <<ptToast, isProcessing>>
  /\ UNCHANGED <<invoices, invoice_line_items, ptInvoices, sumPaid, isDialogOpen,
                 dialogInvoice, paymentAmount, selectedIds, rpcCalls, payClicks,
                 amountEdits>>
  /\ UNCHANGED payUntouched

\* newPaid >= total ? 'paid' : (status === 'draft' ? 'sent' : status)
StatusAfterPayment(inv, newPaid) ==
  IF newPaid >= inv.total_amount THEN "paid"
  ELSE IF inv.status = "draft" THEN "sent" ELSE inv.status

\* .from('invoices').update({ status }).eq('id', id)
WithStatus(id, status) ==
  { IF i.id = id THEN [i EXCEPT !.status = status] ELSE i : i \in invoices }

\* update of the invoice status, computed from the sums and the row of the
\* click's render; then the success toast and the close of the dialog
PaymentStatus(t) ==
  /\ Stage(t) = "status"
  /\ LET op == ptOp[t][1]
     IN  /\ invoices' = WithStatus(op.inv.id, StatusAfterPayment(op.inv, op.paid + op.amount))
         /\ ptOp' = [ptOp EXCEPT ![t] = << [op EXCEPT !.stage = "loadInvoices"] >>]
  /\ ptToast' = [ptToast EXCEPT ![t] = "Payment recorded"]
  /\ isDialogOpen' = [isDialogOpen EXCEPT ![t] = FALSE]
  /\ UNCHANGED <<payments, invoice_line_items, nextId, ptInvoices, sumPaid,
                 dialogInvoice, paymentAmount, isProcessing, selectedIds, rpcCalls,
                 payClicks, amountEdits>>
  /\ UNCHANGED payUntouched

\* the insert or the status update returns an error: throw into the catch block
PaymentRemoteError(t) ==
  /\ Stage(t) \in {"insert", "status"}
  /\ PaymentFailed(t, "Could not record payment")
  /\ UNCHANGED <<payments, invoices, invoice_line_items, nextId, ptInvoices, sumPaid,
                 isDialogOpen, dialogInvoice, paymentAmount, selectedIds, rpcCalls,
                 payClicks, amountEdits>>
  /\ UNCHANGED payUntouched

\* "Undo Last" on a row (rendered while the paid sum shown is > 0, disabled
\* while isProcessing), confirmed in the confirm dialog: doUndoLastPayment(inv)
UndoLastPayment(t, inv) ==
  /\ inv \in ptInvoices[t]
  /\ ListShown(t)
  /\ PaidOf(t, inv.id) > 0
  /\ ~isProcessing[t]
  /\ payClicks < MaxPayClicks
  /\ payClicks' = payClicks + 1
  /\ isProcessing' = [isProcessing EXCEPT ![t] = TRUE]
  /\ ptOp' = [ptOp EXCEPT ![t] = << NewOp(t, "undo", "undoFind", inv) >>]
  /\ UNCHANGED <<payments, invoices, invoice_line_items, nextId, ptInvoices, sumPaid,
                 isDialogOpen, dialogInvoice, paymentAmount, selectedIds, ptToast,
                 rpcCalls, amountEdits>>
  /\ UNCHANGED payUntouched

\* the oldest payment instead of the latest
LastPayment_Oldest(id) ==
  { p \in payments :
      /\ p.invoice_id = id
      /\ \A q \in payments : q.invoice_id = id => q.created_at >= p.created_at }

\* payments .eq('invoice_id', id).order('payment_date', desc)
\* .order('created_at', desc).limit(1): the rows the query can return
LastPayment(id) ==
  { p \in payments :
      /\ p.invoice_id = id
      /\ \A q \in payments :
           q.invoice_id = id =>
             \/ q.payment_date < p.payment_date
             \/ q.payment_date = p.payment_date /\ q.created_at <= p.created_at }

\* the read of the last payment returns: without a row the handler throws
\* 'No payments found for this invoice'
UndoFind(t) ==
  /\ Stage(t) = "undoFind"
  /\ LET op == ptOp[t][1]
     IN  IF LastPayment(op.inv.id) = {}
           THEN PaymentFailed(t, "No payments found for this invoice")
           ELSE /\ \E last \in LastPayment(op.inv.id) :
                     ptOp' = [ptOp EXCEPT ![t] =
                       << [op EXCEPT !.stage = "undoDelete",
                                     !.last = << [id |-> last.id, amount |-> last.amount] >>] >>]
                /\ UNCHANGED <<ptToast, isProcessing>>
  /\ UNCHANGED <<payments, invoices, invoice_line_items, nextId, ptInvoices, sumPaid,
                 isDialogOpen, dialogInvoice, paymentAmount, selectedIds, rpcCalls,
                 payClicks, amountEdits>>
  /\ UNCHANGED payUntouched

\* payments .delete().eq('id', last.id)
UndoDelete(t) ==
  /\ Stage(t) = "undoDelete"
  /\ LET op == ptOp[t][1]
     IN  /\ payments' = { p \in payments : p.id # op.last[1].id }
         /\ ptOp' = [ptOp EXCEPT ![t] = << [op EXCEPT !.stage = "undoStatus"] >>]
  /\ UNCHANGED <<invoices, invoice_line_items, nextId, ptInvoices, sumPaid, isDialogOpen,
                 dialogInvoice, paymentAmount, isProcessing, selectedIds, ptToast,
                 rpcCalls, payClicks, amountEdits>>
  /\ UNCHANGED payUntouched

\* paidAfter <= 0 ? (status === 'paid' ? 'sent' : status)
\*                : (paidAfter >= total ? 'paid' : 'sent')
StatusAfterUndo(inv, paidAfter) ==
  IF paidAfter <= 0
    THEN (IF inv.status = "paid" THEN "sent" ELSE inv.status)
    ELSE (IF paidAfter >= inv.total_amount THEN "paid" ELSE "sent")

\* update of the invoice status from the sum and the row of the click's
\* render, then the toast 'Last payment undone'
UndoStatus(t) ==
  /\ Stage(t) = "undoStatus"
  /\ LET op == ptOp[t][1]
     IN  /\ invoices' = WithStatus(op.inv.id,
                                   StatusAfterUndo(op.inv, op.paid - op.last[1].amount))
         /\ ptOp' = [ptOp EXCEPT ![t] = << [op EXCEPT !.stage = "loadInvoices"] >>]
  /\ ptToast' = [ptToast EXCEPT ![t] = "Last payment undone"]
  /\ UNCHANGED <<payments, invoice_line_items, nextId, ptInvoices, sumPaid, isDialogOpen,
                 dialogInvoice, paymentAmount, isProcessing, selectedIds, rpcCalls,
                 payClicks, amountEdits>>
  /\ UNCHANGED payUntouched

\* the read, the delete or the status update of the undo returns an error
UndoRemoteError(t) ==
  /\ Stage(t) \in {"undoFind", "undoDelete", "undoStatus"}
  /\ PaymentFailed(t, "Could not undo payment")
  /\ UNCHANGED <<payments, invoices, invoice_line_items, nextId, ptInvoices, sumPaid,
                 isDialogOpen, dialogInvoice, paymentAmount, selectedIds, rpcCalls,
                 payClicks, amountEdits>>
  /\ UNCHANGED payUntouched

\* "Delete" on a row (disabled while isProcessing), confirmed in the confirm
\* dialog: doDeleteInvoice(inv)
DeleteInvoice(t, inv) ==
  /\ inv \in ptInvoices[t]
  /\ ListShown(t)
  /\ ~isProcessing[t]
  /\ payClicks < MaxPayClicks
  /\ payClicks' = payClicks + 1
  /\ isProcessing' = [isProcessing EXCEPT ![t] = TRUE]
  /\ ptOp' = [ptOp EXCEPT ![t] = << NewOp(t, "delete", "delete", inv) >>]
  /\ UNCHANGED <<payments, invoices, invoice_line_items, nextId, ptInvoices, sumPaid,
                 isDialogOpen, dialogInvoice, paymentAmount, selectedIds, ptToast,
                 rpcCalls, amountEdits>>
  /\ UNCHANGED payUntouched

\* "Delete Selected (n)" (rendered while selectedIds is not empty, disabled
\* while isProcessing), confirmed in the confirm dialog: doBulkDelete()
BulkDelete(t) ==
  /\ selectedIds[t] # {}
  /\ ~isDialogOpen[t]
  /\ ~isProcessing[t]
  /\ payClicks < MaxPayClicks
  /\ payClicks' = payClicks + 1
  /\ isProcessing' = [isProcessing EXCEPT ![t] = TRUE]
  /\ ptOp' = [ptOp EXCEPT ![t] =
       << NewOp(t, "bulk", "delete", [id |-> NULL, student_id |-> NoId,
                                       total_amount |-> 0, status |-> ""]) >>]
  /\ UNCHANGED <<payments, invoices, invoice_line_items, nextId, ptInvoices, sumPaid,
                 isDialogOpen, dialogInvoice, paymentAmount, selectedIds, ptToast,
                 rpcCalls, amountEdits>>
  /\ UNCHANGED payUntouched

\* the rows without those of the invoices ids: ON DELETE CASCADE
WithoutInvoices_NoCascade(rows, ids) == rows

\* the rows without those of the invoices ids: invoice_id REFERENCES invoices(id)
\* ON DELETE CASCADE
WithoutInvoices(rows, ids) == { r \in rows : r.invoice_id \notin ids }

\* a function without the keys ids
WithoutKeys(f, ids) == [k \in DOMAIN f \ ids |-> f[k]]

\* invoices .delete().eq('id', inv.id) succeeds; the row leaves the list and
\* the paid sums of the click's render
DeleteInvoiceDone(t) ==
  /\ Stage(t) = "delete" /\ ptOp[t][1].kind = "delete"
  /\ LET op == ptOp[t][1]
         ids == {op.inv.id}
     IN  /\ invoices' = { i \in invoices : i.id \notin ids }
         /\ invoice_line_items' = WithoutInvoices(invoice_line_items, ids)
         /\ payments' = WithoutInvoices(payments, ids)
         /\ ptInvoices' = [ptInvoices EXCEPT ![t] = { r \in @ : r.id \notin ids }]
         /\ sumPaid' = [sumPaid EXCEPT ![t] = WithoutKeys(op.sums, ids)]
  /\ ptToast' = [ptToast EXCEPT ![t] = "Invoice deleted"]
  /\ isProcessing' = [isProcessing EXCEPT ![t] = FALSE]
  /\ ptOp' = [ptOp EXCEPT ![t] = <<>>]
  /\ UNCHANGED <<nextId, isDialogOpen, dialogInvoice, paymentAmount, selectedIds,
                 rpcCalls, payClicks, amountEdits>>
  /\ UNCHANGED payUntouched

\* invoices .delete().in('id', ids) succeeds; the rows leave the list and the
\* paid sums, the selection is emptied
BulkDeleteDone(t) ==
  /\ Stage(t) = "delete" /\ ptOp[t][1].kind = "bulk"
  /\ LET op == ptOp[t][1]
     IN  /\ invoices' = { i \in invoices : i.id \notin op.ids }
         /\ invoice_line_items' = WithoutInvoices(invoice_line_items, op.ids)
         /\ payments' = WithoutInvoices(payments, op.ids)
         /\ ptInvoices' = [ptInvoices EXCEPT ![t] = { r \in @ : r.id \notin op.ids }]
         /\ sumPaid' = [sumPaid EXCEPT ![t] = WithoutKeys(op.sums, op.ids)]
  /\ selectedIds' = [selectedIds EXCEPT ![t] = {}]
  /\ ptToast' = [ptToast EXCEPT ![t] = "Invoices deleted"]
  /\ isProcessing' = [isProcessing EXCEPT ![t] = FALSE]
  /\ ptOp' = [ptOp EXCEPT ![t] = <<>>]
  /\ UNCHANGED <<nextId, isDialogOpen, dialogInvoice, paymentAmount, rpcCalls, payClicks,
                 amountEdits>>
  /\ UNCHANGED payUntouched

\* the delete returns an error: 'Delete failed' / 'Bulk delete failed'
DeleteRemoteError(t) ==
  /\ Stage(t) = "delete"
  /\ PaymentFailed(t, "Could not delete")
  /\ UNCHANGED <<payments, invoices, invoice_line_items, nextId, ptInvoices, sumPaid,
                 isDialogOpen, dialogInvoice, paymentAmount, selectedIds, rpcCalls,
                 payClicks, amountEdits>>
  /\ UNCHANGED payUntouched

\* the paid sums of loadInvoices: payments .in('invoice_id', ids), added up
PaidSums(ids) ==
  [id \in { p.invoice_id : p \in { x \in payments : x.invoice_id \in ids } } |->
     SumAmounts({ p \in payments : p.invoice_id = id })]

\* await loadInvoices(), first read: the invoices; an error is toasted by
\* loadInvoices itself and the handler finishes
PaymentReloadInvoices(t) ==
  /\ Stage(t) = "loadInvoices"
  /\ \E ok \in BOOLEAN :
       IF ~ok
         THEN /\ PaymentFailed(t, "Error loading invoices")
              /\ UNCHANGED <<ptInvoices, sumPaid>>
         ELSE /\ ptInvoices' = [ptInvoices EXCEPT ![t] = { InvoiceRowOf(i) : i \in invoices }]
              /\ IF invoices = {}
                   THEN /\ sumPaid' = [sumPaid EXCEPT ![t] = <<>>]
                        /\ isProcessing' = [isProcessing EXCEPT ![t] = FALSE]
                        /\ ptOp' = [ptOp EXCEPT ![t] = <<>>]
                   ELSE /\ ptOp' = [ptOp EXCEPT ![t] =
                             << [ptOp[t][1] EXCEPT !.stage = "loadPayments"] >>]
                        /\ UNCHANGED <<sumPaid, isProcessing>>
              /\ UNCHANGED ptToast
  /\ UNCHANGED <<payments, invoices, invoice_line_items, nextId, isDialogOpen,
                 dialogInvoice, paymentAmount, selectedIds, rpcCalls, payClicks,
                 amountEdits>>
  /\ UNCHANGED payUntouched

\* await loadInvoices(), second read: the payments of the rows just loaded
PaymentReloadPayments(t) ==
  /\ Stage(t) = "loadPayments"
  /\ \E ok \in BOOLEAN :
       IF ~ok
         THEN /\ PaymentFailed(t, "Error loading invoices")
              /\ UNCHANGED sumPaid
         ELSE /\ sumPaid' = [sumPaid EXCEPT ![t] = PaidSums({ r.id : r \in ptInvoices[t] })]
              /\ isProcessing' = [isProcessing EXCEPT ![t] = FALSE]
              /\ ptOp' = [ptOp EXCEPT ![t] = <<>>]
              /\ UNCHANGED ptToast
  /\ UNCHANGED <<payments, invoices, invoice_line_items, nextId, ptInvoices,
                 isDialogOpen, dialogInvoice, paymentAmount, selectedIds, rpcCalls,
                 payClicks, amountEdits>>
  /\ UNCHANGED payUntouched

\* ------------------------------------------------------------------------
\* ClassManager and the attendance page
\* ------------------------------------------------------------------------
\* what the class manager and the attendance page never touch
cmUntouched == <<lesson_schedules, attendance_records, attClientVars, invoices,
                 invoice_line_items, tz, igStudents, selectedClassId,
                 selectedStudentId, selectedMonth, hourlyRate, summary, isBusy,
                 igLoads, igRuns, igSave, rateEdited, edits, summaryFor, savedFrom,
                 igToast, payVars, extVars>>

\* texts the class name field can hold
NameTexts == {"", " ", "A"}

\* txt.trim()
Trim(txt) == IF txt = " " THEN "" ELSE txt

\* Array.from(new Set((schedules ?? []).map(s => s.student_id))) of the rows
\* .eq('class_id', c): the distinct student ids of the class's schedule rows
EnrolledIds(c) == { r.student_id : r \in { x \in lesson_schedules : x.class_id = c } }

\* the size of the Set of student ids collected for class c from the rows
\* .in('class_id', classIds)
StudentCount(c, ids) ==
  Cardinality({ r.student_id :
                  r \in { x \in lesson_schedules : x.class_id \in ids /\ x.class_id = c } })

\* a sequence without its i-th element
RemoveAt(s, i) == SubSeq(s, 1, i - 1) \o SubSeq(s, i + 1, Len(s))

\* isLoading: the class manager renders its loading screen
CmLoading == cmLoad # <<>>

\* loadClasses: supabase.auth.getUser() returns the teacher
CmLoadAuth ==
  /\ cmLoad # <<>> /\ cmLoad[1].stage = "auth"
  /\ cmLoad' = << [cmLoad[1] EXCEPT !.stage = "classes"] >>
  /\ UNCHANGED <<classes, nextId, cmClasses, cmIsAddingClass, cmNewClass, cmAdds,
                 cmToast, pgSelectedClass, pgStudentList, pgLoad, classClicks>>
  /\ UNCHANGED cmUntouched

\* loadClasses: the classes read returns; without classes the schedules read is
\* skipped and the empty list is set
CmLoadClasses ==
  /\ cmLoad # <<>> /\ cmLoad[1].stage = "classes"
  /\ IF DOMAIN classes = {}
       THEN /\ cmClasses' = <<>>
            /\ cmLoad' = <<>>
       ELSE /\ cmLoad' = << [cmLoad[1] EXCEPT !.stage = "schedules", !.ids = DOMAIN classes] >>
            /\ UNCHANGED cmClasses
  /\ UNCHANGED <<classes, nextId, cmIsAddingClass, cmNewClass, cmAdds, cmToast,
                 pgSelectedClass, pgStudentList, pgLoad, classClicks>>
  /\ UNCHANGED cmUntouched

\* loadClasses: the schedules read returns; student_count is the number of
\* distinct student ids per class, 0 for a class without rows
CmLoadSchedules ==
  /\ cmLoad # <<>> /\ cmLoad[1].stage = "schedules"
  /\ cmClasses' = [c \in cmLoad[1].ids |-> StudentCount(c, cmLoad[1].ids)]
  /\ cmLoad' = <<>>
  /\ UNCHANGED <<classes, nextId, cmIsAddingClass, cmNewClass, cmAdds, cmToast,
                 pgSelectedClass, pgStudentList, pgLoad, classClicks>>
  /\ UNCHANGED cmUntouched

\* loadClasses: no user or a read returns an error: toast, finally
CmLoadError ==
  /\ cmLoad # <<>>
  /\ cmToast' = "Error loading classes"
  /\ cmLoad' = <<>>
  /\ UNCHANGED <<classes, nextId, cmClasses, cmIsAddingClass, cmNewClass, cmAdds,
                 pgSelectedClass, pgStudentList, pgLoad, classClicks>>
  /\ UNCHANGED cmUntouched

\* the "Add Class" button of the card header: setIsAddingClass(v => !v)
ToggleAddClassForm ==
  /\ ~CmLoading
  /\ classClicks < MaxClassClicks
  /\ classClicks' = classClicks + 1
  /\ cmIsAddingClass' = ~cmIsAddingClass
  /\ UNCHANGED <<classes, nextId, cmClasses, cmNewClass, cmLoad, cmAdds, cmToast,
                 pgSelectedClass, pgStudentList, pgLoad>>
  /\ UNCHANGED cmUntouched

\* the user types into the class name or the hourly rate field of the form
EditNewClass(name, rate) ==
  /\ ~CmLoading /\ cmIsAddingClass
  /\ classClicks < MaxClassClicks
  /\ name \in NameTexts /\ rate \in {"", "20"}
  /\ [class_name |-> name, hourly_rate |-> rate] # cmNewClass
  /\ classClicks' = classClicks + 1
  /\ cmNewClass' = [class_name |-> name, hourly_rate |-> rate]
  /\ UNCHANGED <<classes, nextId, cmClasses, cmIsAddingClass, cmLoad, cmAdds, cmToast,
                 pgSelectedClass, pgStudentList, pgLoad>>
  /\ UNCHANGED cmUntouched

\* "Cancel" in the form
CancelAddClass ==
  /\ ~CmLoading /\ cmIsAddingClass
  /\ classClicks < MaxClassClicks
  /\ classClicks' = classClicks + 1
  /\ cmIsAddingClass' = FALSE
  /\ cmNewClass' = [class_name |-> "", hourly_rate |-> ""]
  /\ UNCHANGED <<classes, nextId, cmClasses, cmLoad, cmAdds, cmToast, pgSelectedClass,
                 pgStudentList, pgLoad>>
  /\ UNCHANGED cmUntouched

\* "Add Class" in the form (the button has no disabled attribute): addClass up
\* to its first await, with the form values of the click's render
AddClass ==
  /\ ~CmLoading /\ cmIsAddingClass
  /\ classClicks < MaxClassClicks
  /\ classClicks' = classClicks + 1
  /\ IF Trim(cmNewClass.class_name) = ""
       THEN /\ cmToast' = "Class name required"
            /\ UNCHANGED cmAdds
       ELSE /\ cmAdds' = Append(cmAdds,
                 [stage |-> "auth", name |-> Trim(cmNewClass.class_name),
                  rate |-> IF cmNewClass.hourly_rate = "" THEN NoRate
                           ELSE parseFloat(cmNewClass.hourly_rate).val])
            /\ UNCHANGED cmToast
  /\ UNCHANGED <<classes, nextId, cmClasses, cmIsAddingClass, cmNewClass, cmLoad,
                 pgSelectedClass, pgStudentList, pgLoad>>
  /\ UNCHANGED cmUntouched

\* addClass: supabase.auth.getUser() returns the teacher
AddClassAuth(i) ==
  /\ i \in DOMAIN cmAdds /\ cmAdds[i].stage = "auth"
  /\ cmAdds' = [cmAdds EXCEPT ![i].stage = "insert"]
  /\ UNCHANGED <<classes, nextId, cmClasses, cmIsAddingClass, cmNewClass, cmLoad,
                 cmToast, pgSelectedClass, pgStudentList, pgLoad, classClicks>>
  /\ UNCHANGED cmUntouched

\* addClass: the insert returns the new row; toast, the form is reset and
\* closed, the row is put in front of the list with student_count 0
AddClassInsert(i) ==
  /\ i \in DOMAIN cmAdds /\ cmAdds[i].stage = "insert"
  /\ LET id == "c" \o ToString(nextId)
     IN  /\ classes' = [c \in DOMAIN classes \cup {id} |->
                          IF c = id THEN (IF cmAdds[i].rate = NoRate THEN NoRate
                                          ELSE Decimal2(cmAdds[i].rate))
                                    ELSE classes[c]]
         /\ cmClasses' = [c \in DOMAIN cmClasses \cup {id} |->
                            IF c = id THEN 0 ELSE cmClasses[c]]
  /\ nextId' = nextId + 1
  /\ cmToast' = "Class added"
  /\ cmNewClass' = [class_name |-> "", hourly_rate |-> ""]
  /\ cmIsAddingClass' = FALSE
  /\ cmAdds' = RemoveAt(cmAdds, i)
  /\ UNCHANGED <<cmLoad, pgSelectedClass, pgStudentList, pgLoad, classClicks>>
  /\ UNCHANGED cmUntouched

\* addClass: no user, or the insert returns an error: toast
AddClassError(i) ==
  /\ i \in DOMAIN cmAdds
  /\ cmToast' = "Error adding class"
  /\ cmAdds' = RemoveAt(cmAdds, i)
  /\ UNCHANGED <<classes, nextId, cmClasses, cmIsAddingClass, cmNewClass, cmLoad,
                 pgSelectedClass, pgStudentList, pgLoad, classClicks>>
  /\ UNCHANGED cmUntouched

\* handleClassSelection(classData, month): the class is selected and
\* loadStudentsForClass starts; the page shows its loading screen meanwhile
PgSelectClass(c) ==
  /\ pgLoad = <<>>
  /\ c \in DOMAIN classes
  /\ classClicks < MaxClassClicks
  /\ classClicks' = classClicks + 1
  /\ pgSelectedClass' = c
  /\ pgLoad' = << [cls |-> c, stage |-> "auth", ids |-> {}] >>
  /\ UNCHANGED <<classes, nextId, cmClasses, cmIsAddingClass, cmNewClass, cmLoad,
                 cmAdds, cmToast, pgStudentList>>
  /\ UNCHANGED cmUntouched

\* loadStudentsForClass: supabase.auth.getUser() returns the teacher
PgLoadAuth ==
  /\ pgLoad # <<>> /\ pgLoad[1].stage = "auth"
  /\ pgLoad' = << [pgLoad[1] EXCEPT !.stage = "schedules"] >>
  /\ UNCHANGED <<classes, nextId, cmClasses, cmIsAddingClass, cmNewClass, cmLoad,
                 cmAdds, cmToast, pgSelectedClass, pgStudentList, classClicks>>
  /\ UNCHANGED cmUntouched

\* loadStudentsForClass: the schedules read returns; without student ids it
\* returns [] and the list is set
PgLoadSchedules ==
  /\ pgLoad # <<>> /\ pgLoad[1].stage = "schedules"
  /\ IF EnrolledIds(pgLoad[1].cls) = {}
       THEN /\ pgStudentList' = {}
            /\ pgLoad' = <<>>
       ELSE /\ pgLoad' = << [pgLoad[1] EXCEPT !.stage = "students",
                                              !.ids = EnrolledIds(pgLoad[1].cls)] >>
            /\ UNCHANGED pgStudentList
  /\ UNCHANGED <<classes, nextId, cmClasses, cmIsAddingClass, cmNewClass, cmLoad,
                 cmAdds, cmToast, pgSelectedClass, classClicks>>
  /\ UNCHANGED cmUntouched

\* loadStudentsForClass: the students read .in('id', studentIds) returns the
\* rows of these ids (student_id REFERENCES students); setStudentList
PgLoadStudents ==
  /\ pgLoad # <<>> /\ pgLoad[1].stage = "students"
  /\ pgStudentList' = { s \in Students : s \in pgLoad[1].ids }
  /\ pgLoad' = <<>>
  /\ UNCHANGED <<classes, nextId, cmClasses, cmIsAddingClass, cmNewClass, cmLoad,
                 cmAdds, cmToast, pgSelectedClass, classClicks>>
  /\ UNCHANGED cmUntouched

\* loadStudentsForClass: no user or a read returns an error: the catch block
\* logs and returns [], which handleClassSelection sets as the list
PgLoadError ==
  /\ pgLoad # <<>>
  /\ pgStudentList' = {}
  /\ pgLoad' = <<>>
  /\ UNCHANGED <<classes, nextId, cmClasses, cmIsAddingClass, cmNewClass, cmLoad,
                 cmAdds, cmToast, pgSelectedClass, classClicks>>
  /\ UNCHANGED cmUntouched

\* ------------------------------------------------------------------------
\* Row-level security: the requests the policies let a teacher make
\* ------------------------------------------------------------------------
\* what a request to the tables of the two teachers never touches
rlsUntouched == <<attVars, invVars, payVars, cmVars, navVars, smVars, gridVars>>

\* auth.uid() of the two teachers
Teachers == {"t1", "t2"}

\* classes.teacher_id: each teacher has one class
ClassTeacher == [k \in {"k1", "k2"} |-> IF k = "k1" THEN "t1" ELSE "t2"]

\* students.teacher_id: each teacher has one student
StudentTeacher == [p \in {"p1", "p2"} |-> IF p = "p1" THEN "t1" ELSE "t2"]

\* lesson_schedules, FOR ALL USING: the class of the row is a class of the caller
SchedulePolicy(uid, row) == ClassTeacher[row.class_id] = uid

\* attendance_records, FOR ALL USING: the schedule of the row is of a class of
\* the caller
AttendancePolicy(uid, row) == ClassTeacher[row.schedule.class_id] = uid

\* invoices, FOR ALL USING: teacher_id = auth.uid()
InvoicePolicy(uid, row) == row.teacher_id = uid

\* payments, FOR ALL USING: the student of the row is a student of the caller
PaymentPolicy(uid, row) == StudentTeacher[row.student_id] = uid

\* the response to a request: the rows are written when the policy passes
RlsRespond(allowed) ==
  /\ rlsRequests < MaxRequests
  /\ rlsRequests' = rlsRequests + 1
  /\ rlsLast' = IF allowed THEN "ok" ELSE "denied"

\* teacher uid inserts a lesson_schedules row; class and student exist
RlsInsertSchedule(uid, row) ==
  /\ row.class_id \in DOMAIN ClassTeacher /\ row.student_id \in DOMAIN StudentTeacher
  /\ RlsRespond(SchedulePolicy(uid, row))
  /\ rlsSchedules' = IF SchedulePolicy(uid, row) THEN rlsSchedules \cup {row}
                     ELSE rlsSchedules
  /\ UNCHANGED <<rlsAttendance, rlsInvoices, rlsPayments>>
  /\ UNCHANGED rlsUntouched

\* teacher uid inserts an attendance_records row; schedule and student exist
RlsInsertAttendance(uid, row) ==
  /\ row.schedule \in rlsSchedules /\ row.student_id \in DOMAIN StudentTeacher
  /\ row.by = uid
  /\ RlsRespond(AttendancePolicy(uid, row))
  /\ rlsAttendance' = IF AttendancePolicy(uid, row) THEN rlsAttendance \cup {row}
                      ELSE rlsAttendance
  /\ UNCHANGED <<rlsSchedules, rlsInvoices, rlsPayments>>
  /\ UNCHANGED rlsUntouched

\* teacher uid inserts an invoices row; the student exists
RlsInsertInvoice(uid, row) ==
  /\ row.teacher_id \in Teachers /\ row.student_id \in DOMAIN StudentTeacher
  /\ row.id = <<row.teacher_id, row.student_id>>
  /\ RlsRespond(InvoicePolicy(uid, row))
  /\ rlsInvoices' = IF InvoicePolicy(uid, row) THEN rlsInvoices \cup {row}
                    ELSE rlsInvoices
  /\ UNCHANGED <<rlsSchedules, rlsAttendance, rlsPayments>>
  /\ UNCHANGED rlsUntouched

\* teacher uid inserts a payments row; invoice and student exist
RlsInsertPayment(uid, row) ==
  /\ row.invoice_id \in { i.id : i \in rlsInvoices }
  /\ row.student_id \in DOMAIN StudentTeacher
  /\ RlsRespond(PaymentPolicy(uid, row))
  /\ rlsPayments' = IF PaymentPolicy(uid, row) THEN rlsPayments \cup {row}
                    ELSE rlsPayments
  /\ UNCHANGED <<rlsSchedules, rlsAttendance, rlsInvoices>>
  /\ UNCHANGED rlsUntouched

\* ------------------------------------------------------------------------
\* Routes, login and logout: App, Index, Header, LoginForm, lib/api auth,
\* lib/nav and the route-based AttendanceManager
\* ------------------------------------------------------------------------
\* what the routing and session code never touches
navUntouched == <<attVars, invVars, payVars, cmVars, rlsVars, smVars, gridVars>>

DigitChars == <<"0", "1", "2", "3", "4", "5", "6", "7", "8", "9">>

\* a number below 100 as two digits
Pad2(n) == <<DigitChars[(n \div 10) + 1], DigitChars[(n % 10) + 1]>>

\* a year as four digits
Year4(y) == <<DigitChars[(y \div 1000) + 1], DigitChars[((y \div 100) % 10) + 1],
              DigitChars[((y \div 10) % 10) + 1], DigitChars[(y % 10) + 1]>>

\* the en-US short month names of toLocaleDateString
MonthShort ==
  << <<"J", "a", "n">>, <<"F", "e", "b">>, <<"M", "a", "r">>, <<"A", "p", "r">>,
     <<"M", "a", "y">>, <<"J", "u", "n">>, <<"J", "u", "l">>, <<"A", "u", "g">>,
     <<"S", "e", "p">>, <<"O", "c", "t">>, <<"N", "o", "v">>, <<"D", "e", "c">> >>

\* Date.toISOString().slice(0, 10)
getTodayISO(d) == Year4(d.y) \o <<"-">> \o Pad2(d.m) \o <<"-">> \o Pad2(d.d)

\* String.prototype.slice(0, n)
Slice(s, n) == SubSeq(s, 1, IF n < Len(s) THEN n ELSE Len(s))

\* Date.toISOString().slice(0, 7)
getCurrentMonthYYYYMM == Slice(getTodayISO(today), 7)

\* 'Aug 2025': the value of a month option and ClassSelector's default month
formatMonthYear(d) == MonthShort[d.m] \o <<" ">> \o Year4(d.y)

\* the month handleClassSelection stores
normalizedMonth(month) == IF Len(month) = 7 THEN month ELSE Slice(month, 7)

\* auth.isAuthenticated
isAuthenticated == authToken # "" /\ authUserId # ""

\* useParams().classId: only the :classId route has it
ParamsClassId ==
  IF pathname.route = "/attendance/:classId" THEN pathname.classId ELSE ""

\* AttendanceManager after its first render: loadAvailableClasses sent, the
\* route effect done without effect on an empty class list
AmMount ==
  << [availableClasses |-> {}, isLoadingClasses |-> TRUE, selectedClass |-> "",
      selectedMonth |-> getCurrentMonthYYYYMM, showClassSelector |-> FALSE,
      routeEffect |-> FALSE, selecting |-> <<>>] >>

ClassRoute(c) == [route |-> "/attendance/:classId", classId |-> c]

\* <Navigate to="/attendance/last" replace /> of the /attendance route
AppNavigate ==
  /\ pathname.route = "/attendance"
  /\ pathname' = [route |-> "/attendance/last", classId |-> ""]
  /\ searchDate' = <<>>
  /\ index' = "mounting"
  /\ am' = <<>>
  /\ UNCHANGED <<authToken, authUserId, lastClassId, today, navClasses, logoutOp,
                 navToast, navClicks, navUntouched>>

\* the mount effect of Index
IndexMountEffect ==
  /\ index = "mounting"
  /\ IF isAuthenticated /\ pathname.route = "/attendance/last"
       THEN IF lastClassId # ""
              THEN /\ pathname' = ClassRoute(lastClassId)
                   /\ index' = "content"
                   /\ am' = AmMount
              ELSE /\ pathname' = [route |-> "/attendance", classId |-> ""]
                   /\ index' = "unmounted"
                   /\ am' = <<>>
       ELSE /\ index' = IF isAuthenticated THEN "content" ELSE "login"
            /\ am' = IF isAuthenticated THEN AmMount ELSE <<>>
            /\ UNCHANGED pathname
  /\ UNCHANGED <<authToken, authUserId, lastClassId, searchDate, today, navClasses,
                 logoutOp, navToast, navClicks, navUntouched>>

\* loadAvailableClasses answered
AmLoadClasses(ok) ==
  /\ am # <<>>
  /\ am[1].isLoadingClasses
  /\ am' = IF ok
             THEN << [am[1] EXCEPT !.availableClasses = navClasses,
                                   !.isLoadingClasses = FALSE,
                                   !.routeEffect = TRUE] >>
             ELSE << [am[1] EXCEPT !.isLoadingClasses = FALSE] >>
  /\ UNCHANGED <<authToken, authUserId, lastClassId, pathname, searchDate, today,
                 navClasses, index, logoutOp, navToast, navClicks, navUntouched>>

\* handleClassSelection up to its await, run with the params of its render
ClassSelected(a, c, month) ==
  [a EXCEPT !.selectedClass = c,
            !.selectedMonth = normalizedMonth(month),
            !.showClassSelector = FALSE,
            !.routeEffect = FALSE,
            !.selecting = Append(@, [class_id |-> c, params |-> ParamsClassId])]

\* the route effect of AttendanceManager
AmRouteEffect ==
  /\ am # <<>>
  /\ am[1].routeEffect
  /\ LET a == am[1]
         classId == ParamsClassId
         stay == /\ am' = << [a EXCEPT !.routeEffect = FALSE] >>
                 /\ UNCHANGED <<pathname, searchDate, lastClassId>>
         go(c) == /\ pathname' = ClassRoute(c)
                  /\ searchDate' = <<>>
                  /\ UNCHANGED <<am, lastClassId>>
     IN IF classId # "" /\ classId # "last"
          THEN IF classId \in a.availableClasses
                 THEN /\ am' = << ClassSelected(a, classId,
                                    IF searchDate # <<>> THEN searchDate
                                    ELSE getCurrentMonthYYYYMM) >>
                      /\ lastClassId' = classId
                      /\ UNCHANGED <<pathname, searchDate>>
                 ELSE stay
          ELSE IF a.availableClasses = {} THEN stay
          ELSE IF lastClassId \in a.availableClasses THEN go(lastClassId)
          ELSE IF Cardinality(a.availableClasses) = 1
                 THEN go(CHOOSE c \in a.availableClasses : TRUE)
          ELSE /\ am' = << [a EXCEPT !.routeEffect = FALSE,
                                     !.showClassSelector = TRUE] >>
               /\ UNCHANGED <<pathname, searchDate, lastClassId>>
  /\ UNCHANGED <<authToken, authUserId, today, navClasses, index, logoutOp,
                 navToast, navClicks, navUntouched>>

\* handleClassSelection after loadStudentsForClass: the URL follows the class
ClassSelectionDone ==
  /\ am # <<>>
  /\ am[1].selecting # <<>>
  /\ LET s == Head(am[1].selecting)
         moved == s.params # s.class_id
     IN /\ pathname' = IF moved THEN ClassRoute(s.class_id) ELSE pathname
        /\ searchDate' = IF moved THEN <<>> ELSE searchDate
        /\ am' = << [am[1] EXCEPT !.selecting = Tail(@),
                                  !.routeEffect = @ \/ (moved /\ pathname # ClassRoute(s.class_id))] >>
  /\ UNCHANGED <<authToken, authUserId, lastClassId, today, navClasses, index,
                 logoutOp, navToast, navClicks, navUntouched>>

\* Create in the compact ClassSelector of the 'Select Class' card: handleProceed
\* inserts the class and hands it over with the selector's month
ClassSelectorProceed(ok) ==
  /\ am # <<>>
  /\ am[1].showClassSelector
  /\ "c3" \notin navClasses
  /\ IF ok
       THEN /\ navClasses' = navClasses \cup {"c3"}
            /\ am' = << ClassSelected(am[1], "c3", formatMonthYear(today)) >>
            /\ lastClassId' = "c3"
            /\ UNCHANGED navToast
       ELSE /\ navToast' = "Could not create class"
            /\ UNCHANGED <<navClasses, am, lastClassId>>
  /\ UNCHANGED <<authToken, authUserId, pathname, searchDate, today, index, logoutOp,
                 navClicks, navUntouched>>

\* LoginForm.handleSubmit: auth.login, then auth.storeAuth and onLoginSuccess
LoginSubmit(ok) ==
  /\ index = "login"
  /\ navClicks < MaxNavClicks
  /\ navClicks' = navClicks + 1
  /\ IF ok
       THEN /\ authToken' = "jwt"
            /\ authUserId' = "u1"
            /\ navToast' = "Login successful"
            /\ index' = "content"
            /\ am' = AmMount
       ELSE /\ navToast' = "Login failed"
            /\ UNCHANGED <<authToken, authUserId, index, am>>
  /\ UNCHANGED <<lastClassId, pathname, searchDate, today, navClasses, logoutOp,
                 navUntouched>>

\* Header.handleLogout up to the await in auth.logout
HandleLogout ==
  /\ index = "content"
  /\ logoutOp = "idle"
  /\ navClicks < MaxNavClicks
  /\ navClicks' = navClicks + 1
  /\ logoutOp' = "signOut"
  /\ UNCHANGED <<authToken, authUserId, lastClassId, pathname, searchDate, today,
                 navClasses, index, am, navToast, navUntouched>>

\* supabase.auth.signOut settles: resolved ("ok", or "error" in its result) the
\* two items are removed; rejected ("throws") auth.logout ends before them.
\* onLogout runs in the finally block either way.
SignOutSettles(outcome) ==
  /\ logoutOp = "signOut"
  /\ logoutOp' = "idle"
  /\ authToken' = IF outcome = "throws" THEN authToken ELSE ""
  /\ authUserId' = IF outcome = "throws" THEN authUserId ELSE ""
  /\ index' = IF index = "content" THEN "login" ELSE index
  /\ am' = IF index = "content" THEN <<>> ELSE am
  /\ UNCHANGED <<lastClassId, pathname, searchDate, today, navClasses, navToast,
                 navClicks, navUntouched>>

\* Header.handleAttendanceClick
HandleAttendanceClick ==
  /\ index = "content"
  /\ navClicks < MaxNavClicks
  /\ navClicks' = navClicks + 1
  /\ pathname' = [route |-> "/attendance", classId |-> ""]
  /\ searchDate' = <<>>
  /\ index' = "unmounted"
  /\ am' = <<>>
  /\ UNCHANGED <<authToken, authUserId, lastClassId, today, navClasses, logoutOp,
                 navToast, navUntouched>>

\* the page reloaded at its URL
Reload ==
  /\ logoutOp = "idle"
  /\ index \in {"login", "content"}
  /\ navClicks < MaxNavClicks
  /\ navClicks' = navClicks + 1
  /\ index' = "mounting"
  /\ am' = <<>>
  /\ UNCHANGED <<authToken, authUserId, lastClassId, pathname, searchDate, today,
                 navClasses, logoutOp, navToast, navUntouched>>

\* ------------------------------------------------------------------------
\* StudentManager.addStudent
\* ------------------------------------------------------------------------
\* what addStudent never touches
smUntouched == <<attendance_records, attClientVars, invVars, payVars, cmVars,
                 rlsVars, navVars, gridVars>>

\* the ids the students table gives to new rows
NewStudentIds == <<"n1", "n2", "n3">>

\* step 3 of addStudent runs: classId && plannedDatesIso && length > 0
Enrols(classId, planned) == classId # "" /\ planned # {}

\* steps 4 and after: the caller's list, the form, the toast
SmFinish(op) ==
  /\ smStudents' = smStudents \cup {op.id}
  /\ smToast' = "Student added"
  /\ smAdded' = smAdded \cup {[id |-> op.id, classId |-> op.classId]}
  /\ smOp' = <<>>

\* the Add Student button: addStudent up to studentsApi.create
AddStudent(paymentStatus) ==
  /\ smOp = <<>>
  /\ smClicks < MaxAdds
  /\ smClicks' = smClicks + 1
  /\ smOp' = << [stage |-> "create", classId |-> smClassId, planned |-> smPlanned,
                 paymentStatus |-> paymentStatus, id |-> ""] >>
  /\ UNCHANGED <<lesson_schedules, nextId, studentsTable, smClassId, smPlanned,
                 smStudents, smToast, smAdded, smUntouched>>

\* studentsApi.create answered with the new row's id
AddStudentCreate ==
  /\ smOp # <<>> /\ smOp[1].stage = "create"
  /\ LET id == NewStudentIds[Cardinality(studentsTable) + 1]
         op == [smOp[1] EXCEPT !.id = id]
     IN /\ studentsTable' = studentsTable \cup {id}
        /\ IF op.paymentStatus # "pending"
             THEN /\ smOp' = << [op EXCEPT !.stage = "status"] >>
                  /\ UNCHANGED <<smStudents, smToast, smAdded>>
             ELSE IF Enrols(op.classId, op.planned)
             THEN /\ smOp' = << [op EXCEPT !.stage = "schedules"] >>
                  /\ UNCHANGED <<smStudents, smToast, smAdded>>
             ELSE SmFinish(op)
  /\ UNCHANGED <<lesson_schedules, nextId, smClassId, smPlanned, smClicks,
                 smUntouched>>

\* studentsApi.update of the payment status answered
AddStudentStatus ==
  /\ smOp # <<>> /\ smOp[1].stage = "status"
  /\ IF Enrols(smOp[1].classId, smOp[1].planned)
       THEN /\ smOp' = << [smOp[1] EXCEPT !.stage = "schedules"] >>
            /\ UNCHANGED <<smStudents, smToast, smAdded>>
       ELSE SmFinish(smOp[1])
  /\ UNCHANGED <<lesson_schedules, nextId, studentsTable, smClassId, smPlanned,
                 smClicks, smUntouched>>

\* the insert of the lesson_schedules rows answered: the rows are stored, or an
\* error is logged and addStudent goes on
AddStudentSchedules(ok) ==
  /\ smOp # <<>> /\ smOp[1].stage = "schedules"
  /\ LET op == smOp[1]
         dates == op.planned
         nth(d) == Cardinality({ e \in dates : e < d })
     IN /\ lesson_schedules' =
             IF ok
               THEN lesson_schedules \cup
                      { [id |-> nextId + nth(d), class_id |-> op.classId,
                         student_id |-> op.id, lesson_date |-> d,
                         hourly_rate |-> NoRate] : d \in dates }
               ELSE lesson_schedules
        /\ nextId' = IF ok THEN nextId + Cardinality(dates) ELSE nextId
        /\ SmFinish(op)
  /\ UNCHANGED <<studentsTable, smClassId, smPlanned, smClicks, smUntouched>>

\* studentsApi.create or studentsApi.update threw: the catch block
AddStudentError ==
  /\ smOp # <<>> /\ smOp[1].stage \in {"create", "status"}
  /\ smToast' = "Could not add student"
  /\ smOp' = <<>>
  /\ UNCHANGED <<lesson_schedules, nextId, studentsTable, smClassId, smPlanned,
                 smStudents, smAdded, smClicks, smUntouched>>

\* ------------------------------------------------------------------------
\* AttendanceGrid: the load effect, the membership effect, the toggles and
\* saveAttendance
\* ------------------------------------------------------------------------
\* what the grid leaves alone apart from the calls of attendance.save
gridUntouched == <<invVars, payVars, cmVars, rlsVars, navVars, smVars>>

\* what no step of the grid itself changes
gridStoreUntouched == <<lesson_schedules, attendance_records, nextId, aSched,
                        aExisting, materialized, lastVal>>

\* the call of attendance.save is not touched
gridCallUntouched == <<aPc, aClass, aPayload, aCells, aUpdated, aResult, overlap,
                       callsStarted>>

\* the classes the grid is shown for
GridClasses == {"c1", "c2"}

\* daysFromYYYYMM on the calendar of the model: the dates of the month
daysFromYYYYMM(ym) == { d \in AttDates : d \div 100 = ym }

\* the rows of the schedules read of the load effect
MonthSchedules(c, ym) ==
  { r \in lesson_schedules :
      r.class_id = c /\ r.lesson_date >= ym * 100 + 1 /\ r.lesson_date < (ym + 1) * 100 + 1 }

\* localStorage.getItem('lesson_dates:...') parsed, null when absent
CachedDates(c, ym) ==
  IF \E e \in gridCache : e.class_id = c /\ e.month = ym
    THEN << (CHOOSE e \in gridCache : e.class_id = c /\ e.month = ym).dates >>
    ELSE <<>>

\* days: the dates from the store when there are any, else the whole month
GridDays ==
  IF dbDatesIso # <<>> /\ dbDatesIso[1] # {} THEN dbDatesIso[1]
  ELSE daysFromYYYYMM(gridMonth)

\* studentsForThisClass
StudentsForThisClass ==
  IF enrolledIds # <<>> THEN AttStudents \cap enrolledIds[1] ELSE AttStudents

\* a finite set of dates as the list in ascending order
RECURSIVE Ascending(_)
Ascending(S) ==
  IF S = {} THEN <<>>
  ELSE LET least == CHOOSE x \in S : \A y \in S : x <= y
       IN <<least>> \o Ascending(S \ {least})

\* the date cells of the records saveAttendance builds, student by student
RECURSIVE GridCells(_, _)
GridCells(studs, days) ==
  IF studs = {} THEN <<>>
  ELSE LET s == CHOOSE x \in studs : TRUE
           row == [i \in 1..Len(days) |->
                     <<s, days[i], <<s, days[i]>> \in attendanceData>>]
       IN row \o GridCells(studs \ {s}, days)

\* the effects of a render with new props: the cleanup of the effects of the
\* render before sets their ignore flags, the new activations send their reads
EffectsRestarted(c, ym) ==
  /\ gridLoads' = [i \in 1..Len(gridLoads) |-> [gridLoads[i] EXCEPT !.ignore = TRUE]]
                    \o << [class_id |-> c, month |-> ym, stage |-> "schedules",
                           ignore |-> FALSE, schedules |-> {}] >>
  /\ gridMembers' = [i \in 1..Len(gridMembers) |-> [gridMembers[i] EXCEPT !.ignore = TRUE]]
                      \o << [class_id |-> c, ignore |-> FALSE] >>

\* the page passes another class to the grid
GridSelectClass(c) ==
  /\ c # gridClass
  /\ gridClicks < MaxGridClicks
  /\ gridClicks' = gridClicks + 1
  /\ gridClass' = c
  /\ EffectsRestarted(c, gridMonth)
  /\ UNCHANGED <<gridMonth, dbDatesIso, attendanceData, enrolledIds, gridSaving,
                 gridCache, gridToast, gridInitial, gridToggles>>
  /\ UNCHANGED <<gridStoreUntouched, gridCallUntouched, gridUntouched>>

\* the schedules read of a load activation answered
GridSchedules(i, ok) ==
  /\ i \in DOMAIN gridLoads
  /\ gridLoads[i].stage = "schedules"
  /\ LET a == gridLoads[i]
         schedules == MonthSchedules(a.class_id, a.month)
         isoDates == { r.lesson_date : r \in schedules }
     IN IF a.ignore
          THEN /\ gridLoads' = RemoveAt(gridLoads, i)
               /\ UNCHANGED dbDatesIso
        ELSE IF ~ok
          THEN /\ dbDatesIso' = CachedDates(a.class_id, a.month)
               /\ gridLoads' = RemoveAt(gridLoads, i)
        ELSE /\ dbDatesIso' = IF isoDates # {} THEN <<isoDates>>
                              ELSE CachedDates(a.class_id, a.month)
             /\ gridLoads' = IF schedules # {}
                               THEN [gridLoads EXCEPT ![i] =
                                       [a EXCEPT !.stage = "attendance",
                                                 !.schedules = schedules]]
                               ELSE RemoveAt(gridLoads, i)
  /\ UNCHANGED <<gridClass, gridMonth, gridMembers, attendanceData, enrolledIds,
                 gridSaving, gridCache, gridToast, gridInitial, gridToggles,
                 gridClicks>>
  /\ UNCHANGED <<gridStoreUntouched, gridCallUntouched, gridUntouched>>

\* the marks built from the attendance read: the attended rows of the
\* schedules read before, keyed by student and date
Hydrated(schedules) ==
  { <<rec.student_id, r.lesson_date>> :
      <<rec, r>> \in { x \in attendance_records \X schedules :
                         x[1].lesson_schedule_id = x[2].id /\ x[1].attended } }

\* the attendance read of a load activation answered
GridAttendance(i, ok) ==
  /\ i \in DOMAIN gridLoads
  /\ gridLoads[i].stage = "attendance"
  /\ attendanceData' = IF ok THEN Hydrated(gridLoads[i].schedules) ELSE attendanceData
  /\ gridLoads' = RemoveAt(gridLoads, i)
  /\ UNCHANGED <<gridClass, gridMonth, gridMembers, dbDatesIso, enrolledIds,
                 gridSaving, gridCache, gridToast, gridInitial, gridToggles,
                 gridClicks>>
  /\ UNCHANGED <<gridStoreUntouched, gridCallUntouched, gridUntouched>>

\* the read of the membership effect answered
GridMembership(i, ok) ==
  /\ i \in DOMAIN gridMembers
  /\ enrolledIds' = IF gridMembers[i].ignore THEN enrolledIds
                    ELSE IF ok THEN << EnrolledIds(gridMembers[i].class_id) >>
                    ELSE <<>>
  /\ gridMembers' = RemoveAt(gridMembers, i)
  /\ UNCHANGED <<gridClass, gridMonth, gridLoads, dbDatesIso, attendanceData,
                 gridSaving, gridCache, gridToast, gridInitial, gridToggles,
                 gridClicks>>
  /\ UNCHANGED <<gridStoreUntouched, gridCallUntouched, gridUntouched>>

\* toggleAttendance on a cell of the grid
ToggleAttendance(s, d) ==
  /\ s \in StudentsForThisClass
  /\ d \in GridDays
  /\ gridClicks < MaxGridClicks
  /\ gridClicks' = gridClicks + 1
  /\ gridToggles' = gridToggles + 1
  /\ attendanceData' = IF <<s, d>> \in attendanceData
                         THEN attendanceData \ {<<s, d>>}
                         ELSE attendanceData \cup {<<s, d>>}
  /\ UNCHANGED <<gridClass, gridMonth, gridLoads, gridMembers, dbDatesIso, enrolledIds,
                 gridSaving, gridCache, gridToast, gridInitial>>
  /\ UNCHANGED <<gridStoreUntouched, gridCallUntouched, gridUntouched>>

\* the Save button: saveAttendance up to the await of attendance.save
SaveAttendance(authed) ==
  /\ gridSaving = <<>>
  /\ StudentsForThisClass # {}
  /\ AttIdle(1)
  /\ callsStarted < MaxSaves
  /\ AttSaveStart(1, gridClass, GridCells(StudentsForThisClass, Ascending(GridDays)),
                  authed)
  /\ gridSaving' = << [class_id |-> gridClass, month |-> gridMonth,
                       dates |-> GridDays] >>
  /\ UNCHANGED <<gridClass, gridMonth, gridLoads, gridMembers, dbDatesIso,
                 attendanceData, enrolledIds, gridCache, gridToast, gridInitial,
                 gridToggles, gridClicks>>
  /\ UNCHANGED <<lesson_schedules, attendance_records, nextId, materialized, lastVal,
                 gridUntouched>>

\* attendance.save has settled: the dates are cached and 'Attendance saved' is
\* shown, or the catch block shows 'Save failed'
SaveAttendanceSettled ==
  /\ gridSaving # <<>>
  /\ AttIdle(1)
  /\ IF aResult[1] = "ok"
       THEN /\ gridCache' =
                 { e \in gridCache : ~(e.class_id = gridSaving[1].class_id
                                        /\ e.month = gridSaving[1].month) }
                 \cup {gridSaving[1]}
            /\ gridToast' = "Attendance saved"
       ELSE /\ gridToast' = "Save failed"
            /\ UNCHANGED gridCache
  /\ gridSaving' = <<>>
  /\ UNCHANGED <<gridClass, gridMonth, gridLoads, gridMembers, dbDatesIso,
                 attendanceData, enrolledIds, gridInitial, gridToggles, gridClicks>>
  /\ UNCHANGED <<gridStoreUntouched, gridCallUntouched, gridUntouched>>

\* ------------------------------------------------------------------------
\* Initial states
\* ------------------------------------------------------------------------
AttClientInit ==
  /\ aPc = [t \in Tabs |-> "idle"]
  /\ aClass = [t \in Tabs |-> NoId]
  /\ aPayload = [t \in Tabs |-> <<>>]
  /\ aCells = [t \in Tabs |-> <<>>]
  /\ aSched = [t \in Tabs |-> NULL]
  /\ aExisting = [t \in Tabs |-> NULL]
  /\ aUpdated = [t \in Tabs |-> 0]
  /\ aResult = [t \in Tabs |-> "none"]
  /\ overlap = FALSE
  /\ callsStarted = 0
  /\ materialized = [tr \in Triples |-> 0]
  /\ lastVal = <<>>

\* the invoice generator after mount, its classes loaded
InvClientInit ==
  /\ igStudents = {}
  /\ selectedClassId = NoId
  /\ selectedStudentId = NoId
  /\ selectedMonth = NULL
  /\ hourlyRate = ""
  /\ summary = <<>>
  /\ isBusy = FALSE
  /\ igLoads = {}
  /\ igRuns = {}
  /\ igSave = <<>>
  /\ rateEdited = FALSE
  /\ edits = 0
  /\ summaryFor = <<>>
  /\ savedFrom = <<>>
  /\ igToast = ""

\* the payment trackers of the tabs after mount, their lists loaded from a
\* store without payments
PayClientInit ==
  /\ payments = {}
  /\ ptInvoices = [t \in Tabs |-> { InvoiceRowOf(i) : i \in invoices }]
  /\ sumPaid = [t \in Tabs |-> <<>>]
  /\ isDialogOpen = [t \in Tabs |-> FALSE]
  /\ dialogInvoice = [t \in Tabs |-> <<>>]
  /\ paymentAmount = [t \in Tabs |-> ""]
  /\ isProcessing = [t \in Tabs |-> FALSE]
  /\ selectedIds = [t \in Tabs |-> {}]
  /\ ptOp = [t \in Tabs |-> <<>>]
  /\ ptToast = [t \in Tabs |-> ""]
  /\ rpcCalls = 0
  /\ payClicks = 0
  /\ amountEdits = 0

\* no row of the two teachers yet, no request sent
RlsInit ==
  /\ rlsSchedules = {}
  /\ rlsAttendance = {}
  /\ rlsInvoices = {}
  /\ rlsPayments = {}
  /\ rlsLast = ""
  /\ rlsRequests = 0

\* no browser session on the routes of App
NavInit ==
  /\ authToken = ""
  /\ authUserId = ""
  /\ lastClassId = ""
  /\ pathname = [route |-> "/settings", classId |-> ""]
  /\ searchDate = <<>>
  /\ today = [y |-> 2025, m |-> 8, d |-> 15]
  /\ navClasses = {}
  /\ index = "unmounted"
  /\ am = <<>>
  /\ logoutOp = "idle"
  /\ navToast = ""
  /\ navClicks = 0

\* no StudentManager rendered
SmInit ==
  /\ studentsTable = {}
  /\ smClassId = ""
  /\ smPlanned = {}
  /\ smStudents = {}
  /\ smOp = <<>>
  /\ smToast = ""
  /\ smAdded = {}
  /\ smClicks = 0

\* no attendance grid rendered
GridInit ==
  /\ gridClass = NoId
  /\ gridMonth = NULL
  /\ gridLoads = <<>>
  /\ gridMembers = <<>>
  /\ dbDatesIso = <<>>
  /\ attendanceData = {}
  /\ enrolledIds = <<>>
  /\ gridSaving = <<>>
  /\ gridCache = {}
  /\ gridToast = ""
  /\ gridInitial = <<>>
  /\ gridToggles = 0
  /\ gridClicks = 0

\* the initial state of the parts modelled further down
ExtInit == RlsInit /\ NavInit /\ SmInit /\ GridInit

\* the class manager and the attendance page not in use
CmClientInit ==
  /\ cmClasses = <<>>
  /\ cmIsAddingClass = FALSE
  /\ cmNewClass = [class_name |-> "", hourly_rate |-> ""]
  /\ cmLoad = <<>>
  /\ cmAdds = <<>>
  /\ cmToast = ""
  /\ pgSelectedClass = NoId
  /\ pgStudentList = {}
  /\ pgLoad = <<>>
  /\ classClicks = 0

\* an empty store with one class
InitAtt ==
  /\ lesson_schedules = {}
  /\ attendance_records = {}
  /\ nextId = 1
  /\ classes = [c \in Classes |-> NoRate]
  /\ invoices = {}
  /\ invoice_line_items = {}
  /\ tz = 0
  /\ AttClientInit
  /\ InvClientInit
  /\ PayClientInit
  /\ CmClientInit
  /\ ExtInit

\* a store with one invoice of 100.00, its line item and no payment, the
\* payment tracker mounted and its list loaded
InitPay ==
  /\ lesson_schedules = {}
  /\ attendance_records = {}
  /\ nextId = 3
  /\ classes = [c \in Classes |-> NoRate]
  /\ \E st \in {"draft", "sent", "overdue"} :
       invoices = { [id |-> 1, student_id |-> "s1", total_amount |-> 100000,
                     status |-> st, number |-> "remote"] }
  /\ invoice_line_items = { [id |-> 2, invoice_id |-> 1, quantity |-> 4,
                              unit_price |-> 25000, total_price |-> 100000] }
  /\ tz = 0
  /\ AttClientInit
  /\ InvClientInit
  /\ PayClientInit
  /\ CmClientInit
  /\ ExtInit

\* the (class, student) pairs that have schedule rows in a seeded store
EnrolChoices ==
  { {}, {<<"c1", "s1">>}, {<<"c1", "s1">>, <<"c1", "s2">>},
    {<<"c1", "s1">>, <<"c2", "s2">>}, {<<"c2", "s1">>, <<"c2", "s2">>} }

\* the schedule rows of a set of pairs: the pair (c1, s1) has two lessons, every
\* other pair one
EnrolRows(pairs) ==
  { [id |-> 10 + (IF p[1] = "c1" THEN 0 ELSE 2) + (IF p[2] = "s1" THEN 0 ELSE 1),
     class_id |-> p[1], student_id |-> p[2], lesson_date |-> 20240105,
     hourly_rate |-> NoRate] : p \in pairs }
  \cup { [id |-> 14, class_id |-> p[1], student_id |-> p[2], lesson_date |-> 20240112,
          hourly_rate |-> NoRate] : p \in pairs \cap {<<"c1", "s1">>} }

\* two classes with any of the seeded enrolments; the class manager mounted,
\* its loadClasses started; the attendance page and the invoice generator
\* mounted with no class selected
InitClasses ==
  /\ \E pairs \in EnrolChoices : lesson_schedules = EnrolRows(pairs)
  /\ attendance_records = {}
  /\ nextId = 20
  /\ classes = [c \in {"c1", "c2"} |-> IF c = "c1" THEN 20000 ELSE NoRate]
  /\ invoices = {}
  /\ invoice_line_items = {}
  /\ tz = 0
  /\ AttClientInit
  /\ InvClientInit
  /\ PayClientInit
  /\ cmClasses = <<>>
  /\ cmIsAddingClass = FALSE
  /\ cmNewClass = [class_name |-> "", hourly_rate |-> ""]
  /\ cmLoad = << [stage |-> "auth", ids |-> {}] >>
  /\ cmAdds = <<>>
  /\ cmToast = ""
  /\ pgSelectedClass = NoId
  /\ pgStudentList = {}
  /\ pgLoad = <<>>
  /\ classClicks = 0
  /\ ExtInit

\* The schedule and attendance rows of the store the invoice generator works
\* on.  For the billed pair (c1, s1) each date of InvDates has no schedule row
\* or one row, with or without a per-lesson rate, and with no attendance
\* record, an attended one or an absent one.  The row ids run against the
\* dates.  Another student of the class has an attended lesson with its own
\* rate.
InvDates == {20241201, 20241231, 20250101}

SlotId(d) == CASE d = 20241201 -> 3 [] d = 20241231 -> 2 [] d = 20250101 -> 1

SlotRate(d) == IF d = 20241231 THEN 27000 ELSE 25000

NoRow == [present |-> FALSE, rate |-> NoRate, att |-> "none"]

\* every content of a date
SlotChoices(d) ==
  {NoRow} \cup
  [present : {TRUE}, rate : {NoRate, SlotRate(d)},
   att : IF d = 20250101 THEN {"attended"} ELSE {"none", "attended", "absent"}]

\* the contents of a date the generator is walked through from its mount
FlowSlotChoices(d) ==
  IF d = 20250101 THEN {NoRow}
  ELSE {NoRow,
        [present |-> TRUE, rate |-> NoRate, att |-> "attended"],
        [present |-> TRUE, rate |-> SlotRate(d),
         att |-> IF d = 20241201 THEN "attended" ELSE "absent"]}

OtherStudentRow ==
  [id |-> 9, class_id |-> "c1", student_id |-> "s2", lesson_date |-> 20241201,
   hourly_rate |-> 99000]

SeededStore(slot) ==
  /\ lesson_schedules =
       { [id |-> SlotId(d), class_id |-> "c1", student_id |-> "s1",
          lesson_date |-> d, hourly_rate |-> slot[d].rate] :
           d \in { x \in InvDates : slot[x].present } }
       \cup {OtherStudentRow}
  /\ attendance_records =
       { [id |-> 10 + SlotId(d), lesson_schedule_id |-> SlotId(d),
          student_id |-> "s1", attended |-> (slot[d].att = "attended")] :
           d \in { x \in InvDates : slot[x].present /\ slot[x].att # "none" } }
       \cup { [id |-> 19, lesson_schedule_id |-> OtherStudentRow.id,
               student_id |-> "s2", attended |-> TRUE] }
  /\ nextId = 20
  /\ invoices = {}
  /\ invoice_line_items = {}

\* the invoice generator after mount, on a seeded store, the client at UTC
InitInv ==
  /\ \E slot \in [InvDates -> UNION { FlowSlotChoices(d) : d \in InvDates }] :
       /\ \A d \in InvDates : slot[d] \in FlowSlotChoices(d)
       /\ SeededStore(slot)
  /\ classes \in [Classes -> {NoRate, 20000}]
  /\ tz = 0
  /\ AttClientInit
  /\ InvClientInit
  /\ PayClientInit
  /\ CmClientInit
  /\ ExtInit

\* the invoice generator with class, student and month selected, any text in
\* the rate field, and the computeSummary run of these values just started;
\* any seeded store, any timezone
InitSummary ==
  /\ \E slot \in [InvDates -> UNION { SlotChoices(d) : d \in InvDates }] :
       /\ \A d \in InvDates : slot[d] \in SlotChoices(d)
       /\ SeededStore(slot)
  /\ classes \in [Classes -> {NoRate, 20000}]
  /\ tz \in TzOffsets
  /\ AttClientInit
  /\ igStudents = { r.student_id : r \in { x \in lesson_schedules : x.class_id = "c1" } }
  /\ selectedClassId = "c1"
  /\ selectedStudentId \in igStudents
  /\ selectedMonth \in Months
  /\ hourlyRate \in RateTexts
  /\ summary = <<>>
  /\ isBusy = FALSE
  /\ igLoads = {}
  /\ igRuns = { [cls |-> selectedClassId, stu |-> selectedStudentId,
                 month |-> selectedMonth, rate |-> hourlyRate,
                 stage |-> "schedules", scheds |-> <<>>] }
  /\ igSave = <<>>
  /\ rateEdited = (hourlyRate # (IF classes["c1"] = NoRate THEN "" ELSE String(classes["c1"])))
  /\ edits = MaxEdits
  /\ summaryFor = <<>>
  /\ savedFrom = <<>>
  /\ igToast = ""
  /\ PayClientInit
  /\ CmClientInit
  /\ ExtInit

\* one attended lesson of (c1, s1) in December 2024, no per-lesson rate, class
\* rate 20.00, no invoice yet; the invoice generator with class, student and
\* month selected and the summary of these computed; the payment tracker of
\* another tab mounting, its loadInvoices in flight
InitNumbering ==
  /\ SeededStore([d \in InvDates |->
        IF d = 20241201 THEN [present |-> TRUE, rate |-> NoRate, att |-> "attended"]
        ELSE NoRow])
  /\ classes = [c \in Classes |-> 20000]
  /\ invoices = {}
  /\ invoice_line_items = {}
  /\ tz = 0
  /\ AttClientInit
  /\ igStudents = {"s1", "s2"}
  /\ selectedClassId = "c1"
  /\ selectedStudentId = "s1"
  /\ selectedMonth = 202412
  /\ hourlyRate = "20"
  /\ \E scheds \in OrderedByDate(SchedulesInRange("c1", "s1", firstDayISO(202412),
                                                  nextMonthISO(202412))) :
       summary = << MakeSummary(
                      AttendedCount({ scheds[i].id : i \in 1..Len(scheds) }, "s1"),
                      Len(scheds), unitRate("20", scheds, "c1")) >>
  /\ isBusy = FALSE
  /\ igLoads = {}
  /\ igRuns = {}
  /\ igSave = <<>>
  /\ rateEdited = FALSE
  /\ edits = 3
  /\ summaryFor = << [cls |-> "c1", stu |-> "s1", month |-> 202412, rate |-> "20"] >>
  /\ savedFrom = <<>>
  /\ igToast = ""
  /\ payments = {}
  /\ ptInvoices = [t \in Tabs |-> {}]
  /\ sumPaid = [t \in Tabs |-> <<>>]
  /\ isDialogOpen = [t \in Tabs |-> FALSE]
  /\ dialogInvoice = [t \in Tabs |-> <<>>]
  /\ paymentAmount = [t \in Tabs |-> ""]
  /\ isProcessing = [t \in Tabs |-> FALSE]
  /\ selectedIds = [t \in Tabs |-> {}]
  /\ ptOp = [t \in Tabs |->
       IF t \in PayTabs
         THEN << [kind |-> "mount", stage |-> "loadInvoices",
                  inv |-> [id |-> NULL, student_id |-> NoId, total_amount |-> 0,
                           status |-> ""],
                  amount |-> 0, paid |-> 0, sums |-> <<>>, ids |-> {},
                  reference |-> <<>>, last |-> <<>>,
                  before |-> [payments |-> {}, invoices |-> {}]] >>
         ELSE <<>>]
  /\ ptToast = [t \in Tabs |-> ""]
  /\ rpcCalls = 0
  /\ payClicks = 0
  /\ amountEdits = 0
  /\ CmClientInit
  /\ ExtInit

\* the tables of the two teachers empty, every client idle
InitRls == InitAtt

\* the application opened at a URL by a browser whose localStorage holds what
\* an earlier session left
InitNav ==
  /\ lesson_schedules = {}
  /\ attendance_records = {}
  /\ nextId = 1
  /\ classes = [c \in Classes |-> NoRate]
  /\ invoices = {}
  /\ invoice_line_items = {}
  /\ tz = 0
  /\ AttClientInit
  /\ InvClientInit
  /\ PayClientInit
  /\ CmClientInit
  /\ RlsInit
  /\ SmInit
  /\ GridInit
  /\ \E signedIn \in BOOLEAN :
       /\ authToken = IF signedIn THEN "jwt" ELSE ""
       /\ authUserId = IF signedIn THEN "u1" ELSE ""
  /\ lastClassId \in {"", "c1", "gone"}
  /\ navClasses \in {{}, {"c1"}, {"c1", "c2"}}
  /\ today \in {[y |-> 2025, m |-> 8, d |-> 15], [y |-> 2024, m |-> 12, d |-> 1]}
  /\ \E route \in {"/", "/attendance", "/attendance/last", "/attendance/:classId"} :
       /\ pathname = [route |-> route,
                      classId |-> IF route = "/attendance/:classId" THEN "c1" ELSE ""]
       /\ index = IF route = "/attendance" THEN "unmounted" ELSE "mounting"
       /\ searchDate \in IF route = "/attendance/:classId"
                           THEN {<<>>, getTodayISO([y |-> 2025, m |-> 3, d |-> 9]),
                                 Slice(getTodayISO([y |-> 2025, m |-> 3, d |-> 9]), 7)}
                           ELSE {<<>>}
  /\ am = <<>>
  /\ logoutOp = "idle"
  /\ navToast = ""
  /\ navClicks = 0

NextAtt ==
  \E t \in Tabs :
    \/ AttSave(t)
    \/ AttFindSched(t)
    \/ AttInsSched(t)
    \/ AttFindAtt(t)
    \/ AttUpdate(t)
    \/ AttInsert(t)
    \/ AttRemoteError(t)

NextInv ==
  \/ \E c \in Classes : SelectClass(c)
  \/ \E c \in Classes : StudentsLoaded(c)
  \/ \E st \in Students : SelectStudent(st)
  \/ \E m \in Months : SelectMonth(m)
  \/ \E txt \in RateTexts : EditRate(txt)
  \/ \E run \in igRuns : SummarySchedules(run)
  \/ \E run \in igRuns : SummaryAttendance(run)
  \/ \E run \in igRuns : SummaryError(run)
  \/ GenerateClick
  \/ GenerateAuth
  \/ GenerateNumber
  \/ GenerateInsertInvoice
  \/ GenerateInsertLine
  \/ GenerateError

NextSummary ==
  \/ \E run \in igRuns : SummarySchedules(run)
  \/ \E run \in igRuns : SummaryAttendance(run)
  \/ \E run \in igRuns : SummaryError(run)

NextPay ==
  \E t \in PayTabs :
    \/ \E inv \in ptInvoices[t] : OpenPaymentDialog(t, inv)
    \/ ClosePaymentDialog(t)
    \/ \E txt \in AmountTexts : EditPaymentAmount(t, txt)
    \/ \E inv \in ptInvoices[t] : ToggleSelect(t, inv.id)
    \/ ToggleSelectAll(t)
    \/ ProcessPayment(t)
    \/ PaymentReference(t)
    \/ PaymentInsert(t)
    \/ PaymentStatus(t)
    \/ PaymentRemoteError(t)
    \/ \E inv \in ptInvoices[t] : UndoLastPayment(t, inv)
    \/ UndoFind(t)
    \/ UndoDelete(t)
    \/ UndoStatus(t)
    \/ UndoRemoteError(t)
    \/ \E inv \in ptInvoices[t] : DeleteInvoice(t, inv)
    \/ DeleteInvoiceDone(t)
    \/ BulkDelete(t)
    \/ BulkDeleteDone(t)
    \/ DeleteRemoteError(t)
    \/ PaymentReloadInvoices(t)
    \/ PaymentReloadPayments(t)

NextClasses ==
  \/ CmLoadAuth
  \/ CmLoadClasses
  \/ CmLoadSchedules
  \/ CmLoadError
  \/ ToggleAddClassForm
  \/ \E name \in NameTexts, rate \in {"", "20"} : EditNewClass(name, rate)
  \/ CancelAddClass
  \/ AddClass
  \/ \E i \in DOMAIN cmAdds : AddClassAuth(i)
  \/ \E i \in DOMAIN cmAdds : AddClassInsert(i)
  \/ \E i \in DOMAIN cmAdds : AddClassError(i)
  \/ \E c \in DOMAIN classes : PgSelectClass(c)
  \/ PgLoadAuth
  \/ PgLoadSchedules
  \/ PgLoadStudents
  \/ PgLoadError
  \/ \E c \in DOMAIN classes : SelectClass(c)
  \/ \E c \in DOMAIN classes : StudentsLoaded(c)

NextNumbering ==
  \/ GenerateClick
  \/ GenerateAuth
  \/ GenerateNumber
  \/ GenerateInsertInvoice
  \/ GenerateInsertLine
  \/ GenerateError
  \/ \E t \in PayTabs :
       \/ PaymentReloadInvoices(t)
       \/ PaymentReloadPayments(t)
       \/ \E inv \in ptInvoices[t] : OpenPaymentDialog(t, inv)
       \/ ProcessPayment(t)
       \/ PaymentReference(t)
       \/ PaymentInsert(t)
       \/ PaymentStatus(t)
       \/ PaymentRemoteError(t)

NextRls ==
  \E uid \in Teachers :
    \/ \E row \in [class_id : DOMAIN ClassTeacher, student_id : DOMAIN StudentTeacher] :
         RlsInsertSchedule(uid, row)
    \/ \E row \in [schedule : rlsSchedules, student_id : DOMAIN StudentTeacher,
                   by : {uid}] :
         RlsInsertAttendance(uid, row)
    \/ \E t \in Teachers, s \in DOMAIN StudentTeacher :
         RlsInsertInvoice(uid, [id |-> <<t, s>>, teacher_id |-> t, student_id |-> s])
    \/ \E row \in [invoice_id : { i.id : i \in rlsInvoices },
                   student_id : DOMAIN StudentTeacher] :
         RlsInsertPayment(uid, row)

\* StudentManager rendered by the class manager (plannedDatesIso = []), by the
\* /classes/:classId/students route (no plannedDatesIso) or by AttendanceGrid
\* (the planned dates of the shown month), on a store with the enrolments of a
\* seeded class
InitStudents ==
  /\ \E pairs \in {{}, {<<"c1", "s1">>}, {<<"c1", "s1">>, <<"c1", "s2">>}} :
       /\ lesson_schedules = EnrolRows(pairs)
       /\ smStudents = { p[2] : p \in pairs }
  /\ attendance_records = {}
  /\ nextId = 20
  /\ classes = [c \in Classes |-> NoRate]
  /\ invoices = {}
  /\ invoice_line_items = {}
  /\ tz = 0
  /\ AttClientInit
  /\ InvClientInit
  /\ PayClientInit
  /\ CmClientInit
  /\ RlsInit
  /\ NavInit
  /\ GridInit
  /\ studentsTable = {}
  /\ smClassId \in {"", "c1"}
  /\ smPlanned \in {{}, {20240105}, {20240105, 20240112}}
  /\ smOp = <<>>
  /\ smToast = ""
  /\ smAdded = {}
  /\ smClicks = 0

NextStudents ==
  \/ \E paymentStatus \in {"pending", "paid"} : AddStudent(paymentStatus)
  \/ AddStudentCreate
  \/ AddStudentStatus
  \/ \E ok \in BOOLEAN : AddStudentSchedules(ok)
  \/ AddStudentError

\* the grid just mounted for a class and December 2024, its two effects started,
\* on a store where student s1 has a lesson on the first of the month in class
\* c1 and one on the last of the month in class c2, each with an attendance
\* row, the one of class c2 marked attended
InitGrid ==
  /\ lesson_schedules =
       { [id |-> 1, class_id |-> "c1", student_id |-> "s1", lesson_date |-> 20241201,
          hourly_rate |-> NoRate],
         [id |-> 2, class_id |-> "c2", student_id |-> "s1", lesson_date |-> 20241231,
          hourly_rate |-> NoRate] }
  /\ \E v1 \in BOOLEAN, v2 \in {TRUE} :
       /\ attendance_records =
            { [id |-> 3, lesson_schedule_id |-> 1, student_id |-> "s1", attended |-> v1],
              [id |-> 4, lesson_schedule_id |-> 2, student_id |-> "s1", attended |-> v2] }
       /\ gridInitial = (3 :> v1) @@ (4 :> v2)
  /\ nextId = 5
  /\ aPc = [t \in Tabs |-> "idle"]
  /\ aClass = [t \in Tabs |-> NoId]
  /\ aPayload = [t \in Tabs |-> <<>>]
  /\ aCells = [t \in Tabs |-> <<>>]
  /\ aSched = [t \in Tabs |-> NULL]
  /\ aExisting = [t \in Tabs |-> NULL]
  /\ aUpdated = [t \in Tabs |-> 0]
  /\ aResult = [t \in Tabs |-> "none"]
  /\ overlap = FALSE
  /\ callsStarted = 0
  /\ materialized = [tr \in GridClasses \X AttStudents \X AttDates |-> 0]
  /\ lastVal = <<>>
  /\ classes = [c \in Classes |-> NoRate]
  /\ invoices = {}
  /\ invoice_line_items = {}
  /\ tz = 0
  /\ InvClientInit
  /\ PayClientInit
  /\ CmClientInit
  /\ RlsInit
  /\ NavInit
  /\ SmInit
  /\ gridClass \in GridClasses
  /\ gridMonth = 202412
  /\ gridLoads = << [class_id |-> gridClass, month |-> 202412, stage |-> "schedules",
                     ignore |-> FALSE, schedules |-> {}] >>
  /\ gridMembers = << [class_id |-> gridClass, ignore |-> FALSE] >>
  /\ dbDatesIso = <<>>
  /\ attendanceData = {}
  /\ enrolledIds = <<>>
  /\ gridSaving = <<>>
  /\ gridCache = {}
  /\ gridToast = ""
  /\ gridToggles = 0
  /\ gridClicks = 0

NextGrid ==
  \/ \E c \in GridClasses : GridSelectClass(c)
  \/ \E i \in 1..(MaxGridClicks + 1), ok \in BOOLEAN : GridSchedules(i, ok)
  \/ \E i \in 1..(MaxGridClicks + 1), ok \in BOOLEAN : GridAttendance(i, ok)
  \/ \E i \in 1..(MaxGridClicks + 1), ok \in BOOLEAN : GridMembership(i, ok)
  \/ \E s \in AttStudents, d \in AttDates : ToggleAttendance(s, d)
  \/ \E authed \in BOOLEAN : SaveAttendance(authed)
  \/ SaveAttendanceSettled
  \/ AttFindSched(1)
  \/ AttInsSched(1)
  \/ AttFindAtt(1)
  \/ AttUpdate(1)
  \/ AttInsert(1)
  \/ AttRemoteError(1)

NextNav ==
  \/ AppNavigate
  \/ IndexMountEffect
  \/ \E ok \in BOOLEAN : AmLoadClasses(ok)
  \/ AmRouteEffect
  \/ ClassSelectionDone
  \/ \E ok \in BOOLEAN : ClassSelectorProceed(ok)
  \/ \E ok \in BOOLEAN : LoginSubmit(ok)
  \/ HandleLogout
  \/ \E outcome \in {"ok", "error", "throws"} : SignOutSettles(outcome)
  \/ HandleAttendanceClick
  \/ Reload

\* attendance.save called from two tabs, on an initially empty store
SpecAtt == InitAtt /\ [][NextAtt]_vars

\* the invoice generator walked through from its mount
SpecInv == InitInv /\ [][NextInv]_vars

\* computeSummary on every store, month, rate text and timezone
SpecSummary == InitSummary /\ [][NextSummary]_vars

\* the payment tracker recording payments on a store with one invoice
SpecPay == InitPay /\ [][NextPay]_vars

\* the class manager, the attendance page and the class selector of the
\* invoice generator on a store with two classes
SpecClasses == InitClasses /\ [][NextClasses]_vars

\* an invoice generated in one tab and paid in the payment tracker of another
SpecNumbering == InitNumbering /\ [][NextNumbering]_vars

\* the insert requests of two teachers under the row-level security policies
SpecRls == InitRls /\ [][NextRls]_vars

\* the attendance grid opened, switched between classes and saved
SpecGrid == InitGrid /\ [][NextGrid]_vars

\* students added through StudentManager
SpecStudents == InitStudents /\ [][NextStudents]_vars

\* one browser session walking the routes, logging in and out
SpecNav == InitNav /\ [][NextNav]_vars

\* the same session with every redirect, effect and response eventually run
SpecNavFair ==
  /\ SpecNav
  /\ WF_vars(AppNavigate)
  /\ WF_vars(IndexMountEffect)
  /\ WF_vars(\E ok \in BOOLEAN : AmLoadClasses(ok))
  /\ WF_vars(AmRouteEffect)
  /\ WF_vars(ClassSelectionDone)
  /\ WF_vars(\E outcome \in {"ok", "error", "throws"} : SignOutSettles(outcome))

\* ------------------------------------------------------------------------
\* Properties of attendance.save
\* ------------------------------------------------------------------------
\* the rows of a (class, student, date) triple
RowsOfTriple(tr) ==
  { r \in lesson_schedules :
      r.class_id = tr[1] /\ r.student_id = tr[2] /\ r.lesson_date = tr[3] }

\* the attendance rows attached to a schedule row
RecordsOfSchedule(sid) ==
  { a \in attendance_records : a.lesson_schedule_id = sid }

AllAttIdle == \A t \in Tabs : AttIdle(t)

\* C1: as long as no two attendance.save calls have overlapped, a triple that
\* has been materialized (once, twice or more) has exactly one lesson_schedules
\* row: a later call finds the row of the first and does not insert.
C1_FindOrCreateIdempotent ==
  ~overlap =>
    \A tr \in Triples :
      materialized[tr] >= 1 => Cardinality(RowsOfTriple(tr)) = 1

\* two calls, one after the other, have materialized the same triple
C1_Witness ==
  /\ ~overlap
  /\ AllAttIdle
  /\ \E tr \in Triples : materialized[tr] = 2 /\ Cardinality(RowsOfTriple(tr)) = 1

\* C2: as long as no two attendance.save calls have overlapped, every stored
\* attendance record holds the value of the last write to its
\* (schedule row, student) key, whatever was written before.
C2_LastWriteWins ==
  ~overlap =>
    \A a \in attendance_records :
      LET k == <<a.lesson_schedule_id, a.student_id>>
      IN  k \in DOMAIN lastVal /\ a.attended = lastVal[k].v

\* a key written twice, the second time with the other value
C2_Witness ==
  /\ ~overlap
  /\ \E a \in attendance_records :
       LET k == <<a.lesson_schedule_id, a.student_id>>
       IN  /\ k \in DOMAIN lastVal
           /\ lastVal[k].n = 2
           /\ lastVal[k].prev # lastVal[k].v
           /\ a.attended = lastVal[k].v

\* C3: each lesson_schedules row has at most one attendance_records row.
C3_AtMostOneRecordPerSchedule ==
  \A r \in lesson_schedules : Cardinality(RecordsOfSchedule(r.id)) <= 1

C5_DuplicatesOnlyByRace ==
  \A tr \in Triples :
    Cardinality(RowsOfTriple(tr)) >= 2 => overlap /\ materialized[tr] >= 2

\* both calls found no row and both inserted: two rows for one triple
C5_Witness ==
  \E tr \in Triples : Cardinality(RowsOfTriple(tr)) = 2 /\ materialized[tr] = 2

\* ------------------------------------------------------------------------
\* Properties of the invoice generator
\* ------------------------------------------------------------------------
\* the schedule rows of (class, student) whose date d satisfies
\* first day of the month <= d < first day of the next month
RowsOfMonth(c, st, ym) ==
  { r \in lesson_schedules :
      r.class_id = c /\ r.student_id = st /\ r.lesson_date \div 100 = ym }

\* the per-lesson rates of a set of rows that are positive numbers
PositiveRates(rows) == { r \in rows : r.hourly_rate # NoRate /\ r.hourly_rate > 0 }

\* C6: every summary has subtotal = attended x unit, and every invoice saved
\* from a summary has total_amount equal to that summary's subtotal.
C6_SubtotalIsAttendedTimesUnit ==
  /\ summary # <<>> => summary[1].subtotal = summary[1].attended * summary[1].unit
  /\ \A inv \in invoices :
       inv.id \in DOMAIN savedFrom => inv.total_amount = savedFrom[inv.id].subtotal

\* C7: the unit rate of a summary is the manual override when the rate field
\* holds a positive number; otherwise the per-lesson rate of the earliest
\* schedule row of the month that has a positive one; otherwise the class's
\* default rate; otherwise zero.
C7_RatePrecedence ==
  summary # <<>> =>
    LET in == summaryFor[1]
        typed == parseFloat(in.rate)
        rated == PositiveRates(RowsOfMonth(in.cls, in.stu, in.month))
    IN  summary[1].unit =
          IF typed.finite /\ typed.val > 0 THEN typed.val
          ELSE IF rated # {}
            THEN (CHOOSE r \in rated : \A o \in rated : r.lesson_date <= o.lesson_date).hourly_rate
          ELSE IF classes[in.cls] # NoRate THEN classes[in.cls]
          ELSE 0

\* C8: with a class of default rate 20 selected, a schedule row of the student
\* in the month carrying a per-lesson rate of 25, and the rate field never
\* edited by the user, the unit rate of the summary is 25.
C8_PerLessonRateBeforeClassDefault ==
  ( /\ summary # <<>>
    /\ ~rateEdited
    /\ classes[summaryFor[1].cls] = 20000
    /\ \E r \in RowsOfMonth(summaryFor[1].cls, summaryFor[1].stu, summaryFor[1].month) :
         r.hourly_rate = 25000 )
  => summary[1].unit = 25000

\* C9: in every timezone, `total` is the number of schedule rows of the
\* (class, student) in the month and `attended` the number of attended records
\* of the student attached to these rows.
C9_TotalAndAttendedOfMonth ==
  summary # <<>> =>
    LET in == summaryFor[1]
        rows == RowsOfMonth(in.cls, in.stu, in.month)
    IN  /\ summary[1].total = Cardinality(rows)
        /\ summary[1].attended =
             Cardinality({ a \in attendance_records :
                             /\ a.attended
                             /\ a.student_id = in.stu
                             /\ \E r \in rows : r.id = a.lesson_schedule_id })

\* ------------------------------------------------------------------------
\* Properties of the payment tracker
\* ------------------------------------------------------------------------
\* C10: a click on "Record Payment" whose amount is not a finite number or is
\* <= 0 is rejected before any remote call: the click starts no operation (so
\* no reference-generation call, no insert and no status update can follow
\* from it) and leaves the store alone; every operation in flight and every
\* stored payment has a finite amount > 0.
C10_InvalidAmountRejectedFirst ==
  /\ [][\A t \in PayTabs :
          (payClicks' # payClicks /\ isDialogOpen[t]) =>
             /\ rpcCalls' = rpcCalls /\ payments' = payments /\ invoices' = invoices
             /\ ptOp'[t] # ptOp[t] =>
                  /\ parseFloat(paymentAmount[t]).finite
                  /\ parseFloat(paymentAmount[t]).val > 0]_vars
  /\ [](\A t \in Tabs : Stage(t) \in {"rpc", "insert", "status"} => ptOp[t][1].amount > 0)
  /\ [](\A p \in payments : p.amount > 0)

\* a click with the amount 0 or -5 has been rejected with the message of the
\* validation, and nothing has been sent to the store
C10_Witness ==
  \E t \in Tabs :
    /\ paymentAmount[t] \in {"0", "-5"}
    /\ ptToast[t] = "Invalid payment amount"
    /\ payClicks > 0
    /\ ~isProcessing[t] /\ ptOp[t] = <<>>
    /\ rpcCalls = 0 /\ payments = {}

\* the rows of payments of an invoice
PaymentsOf(id) == { p \in payments : p.invoice_id = id }

\* the invoices row with the id, in a set of rows where it exists
InvoiceIn(rows, id) == CHOOSE i \in rows : i.id = id

\* the step of tab t on which processPayment has made its last write
PaymentCompletes(t) ==
  /\ Stage(t) = "status"
  /\ ptOp'[t] # <<>> /\ ptOp'[t][1].stage = "loadInvoices"

\* C11: on the step that completes a record-payment, the invoice status becomes
\* 'paid' if the sum of the payment rows of the invoice (the new one included)
\* is >= the total amount, otherwise 'sent' if the status before the operation
\* was 'draft', otherwise it stays the status before the operation.
C11_StatusAfterPaymentFromSum ==
  [][\A t \in PayTabs :
       PaymentCompletes(t) =>
         LET id == ptOp[t][1].inv.id
             was == InvoiceIn(ptOp[t][1].before.invoices, id)
             paidSum == SumAmounts(PaymentsOf(id))
         IN  InvoiceIn(invoices', id).status =
               IF paidSum >= was.total_amount THEN "paid"
               ELSE IF was.status = "draft" THEN "sent" ELSE was.status]_vars

\* the step of tab t on which doUndoLastPayment deletes the payment it read
UndoDeletes(t) ==
  /\ Stage(t) = "undoDelete"
  /\ ptOp'[t] # <<>> /\ ptOp'[t][1].stage = "undoStatus"

\* C12: the payment an undo removes is the one recorded last of the invoice, so
\* the amounts that remain are those of the payments recorded before it: after
\* N payments and one undo the sum is the sum of the first N - 1 amounts.
C12_UndoRemovesLatestPayment ==
  [][\A t \in PayTabs :
       UndoDeletes(t) =>
         LET id == ptOp[t][1].inv.id
             rows == PaymentsOf(id)
             kept == { p \in payments' : p.invoice_id = id }
         IN  \E r \in rows :
               /\ kept = rows \ {r}
               /\ \A p \in rows : p.created_at <= r.created_at
               /\ SumAmounts(kept) = SumAmounts({ p \in rows : p.created_at < r.created_at })]_vars

\* an undo has removed the later of two payments of different amounts
C12_Witness ==
  \E t \in PayTabs :
    /\ Stage(t) = "undoStatus"
    /\ Cardinality(ptOp[t][1].before.payments) = 2
    /\ \E p \in payments, q \in ptOp[t][1].before.payments :
         /\ payments = {p}
         /\ q.created_at > p.created_at /\ q.amount # p.amount

\* the step of tab t on which doUndoLastPayment has made its last write
UndoCompletes(t) ==
  /\ Stage(t) = "undoStatus"
  /\ ptOp'[t] # <<>> /\ ptOp'[t][1].stage = "loadInvoices"

\* C13: on the step that completes an undo, the invoice status becomes 'sent' if
\* the sum of the payment rows that remain is <= 0 and the status before the
\* operation was 'paid', otherwise 'paid' if that sum is >= the total amount,
\* otherwise 'sent', whatever the status before was.
C13_StatusAfterUndoFromSum ==
  [][\A t \in PayTabs :
       UndoCompletes(t) =>
         LET id == ptOp[t][1].inv.id
             was == InvoiceIn(ptOp[t][1].before.invoices, id)
             remaining == SumAmounts(PaymentsOf(id))
         IN  InvoiceIn(invoices', id).status =
               IF remaining <= 0 /\ was.status = "paid" THEN "sent"
               ELSE IF remaining >= was.total_amount THEN "paid"
               ELSE "sent"]_vars

\* C14: a payment equal to the invoice total makes the status 'paid'; undoing
\* that payment, the only one of a paid invoice, makes it 'sent'; and an undo
\* on an invoice whose status immediately before was not 'paid' leaves the
\* status as it was.
C14_PayTotalThenUndo ==
  [][\A t \in PayTabs :
       LET id == ptOp[t][1].inv.id
           was == InvoiceIn(ptOp[t][1].before.invoices, id)
           now == InvoiceIn(invoices', id)
       IN  /\ (PaymentCompletes(t) /\ ptOp[t][1].amount = was.total_amount)
                => now.status = "paid"
           /\ (UndoCompletes(t) /\ was.status = "paid" /\ PaymentsOf(id) = {}
                 /\ ptOp[t][1].last[1].amount = was.total_amount)
                => now.status = "sent"
           /\ (UndoCompletes(t) /\ was.status # "paid")
                => now.status = was.status]_vars

\* C15: in every state in which no record-payment or undo operation is in
\* flight, an invoice has status 'paid' if and only if the sum of its payment
\* rows is at least its total amount.
C15_PaidIffSumCoversTotal ==
  (\A t \in Tabs : ptOp[t] = <<>>) =>
     \A i \in invoices :
        (i.status = "paid") <=> (SumAmounts(PaymentsOf(i.id)) >= i.total_amount)

\* the step of tab t on which a remote call of processPayment or of
\* doUndoLastPayment fails and the handler reports the failure
PaymentOrUndoFails(t) ==
  /\ Stage(t) \in {"rpc", "insert", "status", "undoFind", "undoDelete", "undoStatus"}
  /\ ptOp'[t] = <<>>
  /\ ptToast'[t] \in {"Could not record payment", "Could not undo payment",
                      "No payments found for this invoice"}

\* C16: when a remote call of a record-payment or undo-last-payment operation
\* fails, the store is left exactly as it was before the operation started: no
\* payment row has been added or removed and the invoice status is unchanged.
C16_FailureLeavesStoreUnchanged ==
  [][\A t \in PayTabs :
       PaymentOrUndoFails(t) =>
          /\ payments' = ptOp[t][1].before.payments
          /\ invoices' = ptOp[t][1].before.invoices]_vars

\* the invoices ids of the store
InvoiceIds == { i.id : i \in invoices }

\* the step of tab t on which a single or a bulk delete removes the invoices ids
Deletes(t, ids) ==
  /\ Stage(t) = "delete"
  /\ ptOp'[t] = <<>>
  /\ ptToast'[t] \in {"Invoice deleted", "Invoices deleted"}
  /\ ids = (IF ptOp[t][1].kind = "bulk" THEN ptOp[t][1].ids ELSE {ptOp[t][1].inv.id})

\* C17: after an invoice is deleted (single or bulk delete), no line item and
\* no payment references it, so its paid sum is zero; in every reachable state
\* every line item and every payment references an existing invoice.
C17_DeleteCascades ==
  /\ [][\A t \in PayTabs : \A ids \in SUBSET {1} :
          Deletes(t, ids) =>
             \A id \in ids :
                /\ id \notin { i.id : i \in invoices' }
                /\ ~\E l \in invoice_line_items' : l.invoice_id = id
                /\ ~\E p \in payments' : p.invoice_id = id
                /\ SumAmounts({ p \in payments' : p.invoice_id = id }) = 0]_vars
  /\ [](\A l \in invoice_line_items : l.invoice_id \in InvoiceIds)
  /\ [](\A p \in payments : p.invoice_id \in InvoiceIds)

\* a delete has just removed an invoice that had a line item and a payment
C17_Witness ==
  /\ invoices = {} /\ invoice_line_items = {} /\ payments = {}
  /\ \E t \in PayTabs : ptToast[t] \in {"Invoice deleted", "Invoices deleted"}
  /\ nextId > 3

\* C18: if a read of schedules or of attendance records fails during
\* computeSummary, no summary is set: the summary is null after the failure
\* (so Generate & Save stays disabled) and the error is surfaced.
C18_ReadFailureLeavesNoSummary ==
  [][\A run \in igRuns :
       SummaryError(run) =>
          /\ summary' = <<>>
          /\ igToast' = "Failed to compute invoice"]_vars

\* C19: within one client, while a remote write operation started from a
\* screen is in flight, no second remote write operation can be started from
\* that screen; in the class manager: while an addClass is in flight no further
\* addClass starts.
C19_NoSecondWriteWhileInFlight ==
  [][Len(cmAdds) > 0 => Len(cmAdds') <= Len(cmAdds)]_vars

\* the store the enrolment loaders read
EnrolmentStore == <<lesson_schedules, attendance_records, classes, invoices,
                    invoice_line_items, payments>>

\* C20: for every class, the students loaded as enrolled by the attendance
\* page, counted by the class manager and listed by the invoice generator are
\* exactly the distinct student ids with at least one lesson_schedules row of
\* the class (none for a class without rows), and the load changes nothing in
\* the store; with no load in flight and none failed, the invoice generator
\* lists the enrolled students of its selected class.
C20_LoadedAreTheEnrolled ==
  /\ [][(pgLoad # <<>> /\ pgLoad' = <<>>) =>
           /\ pgStudentList' = EnrolledIds(pgLoad[1].cls)
           /\ EnrolmentStore' = EnrolmentStore]_vars
  /\ [][CmLoadSchedules =>
           /\ \A c \in DOMAIN classes : cmClasses'[c] = Cardinality(EnrolledIds(c))
           /\ EnrolmentStore' = EnrolmentStore]_vars
  /\ [][\A c \in DOMAIN classes :
           (StudentsLoaded(c) /\ igToast' # "Could not load students for this class") =>
              /\ igStudents' = EnrolledIds(c)
              /\ EnrolmentStore' = EnrolmentStore]_vars
  /\ [](igLoads = {} /\ selectedClassId # NoId /\ igToast = ""
          => igStudents = EnrolledIds(selectedClassId))

\* C21: whatever the reference-number remote function does (value, error,
\* empty value, throw), record-payment and generate-invoice go on to their
\* insert with a non-empty reference / invoice number, the remote value or the
\* locally generated one; every row inserted carries a non-empty one.
C21_ReferenceAlwaysPresent ==
  /\ [][\A t \in PayTabs :
          (Stage(t) = "rpc" /\ ptOp'[t] # ptOp[t]) =>
             /\ ptOp'[t] # <<>>
             /\ ptOp'[t][1].stage = "insert"
             /\ ptOp'[t][1].reference # <<>>
             /\ ptOp'[t][1].reference[1] \in {"PAY-remote", "PAY-local"}]_vars
  /\ [][(igSave # <<>> /\ igSave[1].stage = "rpc" /\ igSave' # igSave) =>
          /\ igSave' # <<>>
          /\ igSave'[1].stage = "insertInvoice"
          /\ igSave'[1].number \in {"remote", "local"}]_vars
  /\ [](\A p \in payments : p.reference # <<>>)
  /\ [](\A i \in invoices : i.number # "")

\* an invoice saved under a local number and paid under a local reference
C21_Witness ==
  /\ \E i \in invoices : i.number = "local"
  /\ \E p \in payments : p.reference[1] = "PAY-local"

\* C22: under the row-level access rules every row a teacher writes is the
\* teacher's own: each lesson_schedules row links a class and a student of the
\* same teacher, each attendance record belongs to a schedule of a class of the
\* teacher who recorded it, and each payment references an invoice and a
\* student of the same teacher.
C22_RowsStayWithTheirTeacher ==
  /\ \A r \in rlsSchedules : ClassTeacher[r.class_id] = StudentTeacher[r.student_id]
  /\ \A a \in rlsAttendance : ClassTeacher[a.schedule.class_id] = a.by
  /\ \A p \in rlsPayments :
       \A i \in rlsInvoices :
          i.id = p.invoice_id => i.teacher_id = StudentTeacher[p.student_id]

\* C23: when undo-last-payment is run on an invoice that has no payment rows in
\* the store, whatever paid sum the client has cached, it reports 'No payments
\* found for this invoice', a message no remote-call failure produces, deletes
\* nothing and does not write the invoice status.
C23_UndoWithoutPayments ==
  /\ [][\A t \in PayTabs :
          (UndoFind(t) /\ PaymentsOf(ptOp[t][1].inv.id) = {}) =>
             /\ ptToast'[t] = "No payments found for this invoice"
             /\ ptOp'[t] = <<>>
             /\ payments' = payments
             /\ invoices' = invoices]_vars
  /\ [][\A t \in PayTabs :
          (ptOp[t] # <<>> /\ ptOp'[t] = <<>>
             /\ ptToast'[t] = "No payments found for this invoice") =>
             /\ Stage(t) = "undoFind"
             /\ PaymentsOf(ptOp[t][1].inv.id) = {}]_vars

\* an undo started from a cached paid sum has found no payment row
C23_Witness ==
  \E t \in PayTabs :
     /\ ptToast[t] = "No payments found for this invoice"
     /\ ptOp[t] = <<>>
     /\ \E id \in DOMAIN sumPaid[t] : sumPaid[t][id] > 0 /\ PaymentsOf(id) = {}

\* ------------------------------------------------------------------------
\* Properties of the routes, login and logout
\* ------------------------------------------------------------------------
\* C24: when a logout started by Header.handleLogout finishes,
\* auth.isAuthenticated() returns false, whether the remote sign-out succeeded
\* or failed; after a successful login followed by storeAuth it returns true.
C24_LogoutClearsAuth ==
  /\ [][(logoutOp = "signOut" /\ logoutOp' = "idle") => ~isAuthenticated']_vars
  /\ [][(index = "login" /\ navToast' = "Login successful" /\ index' = "content")
          => isAuthenticated']_vars

\* a text of the form YYYY-MM
IsYYYYMM(s) ==
  /\ Len(s) = 7
  /\ \A i \in {1, 2, 3, 4, 6, 7} : \E d \in 1..10 : s[i] = DigitChars[d]
  /\ s[5] = "-"

\* C26: the month the route-based AttendanceManager stores and passes to
\* AttendanceGrid always has the form YYYY-MM, whichever month text
\* handleClassSelection was given.
C26_StoredMonthIsYYYYMM ==
  am # <<>> => IsYYYYMM(am[1].selectedMonth)

\* a redirect is about to be issued: by the /attendance route, by the mount
\* effect of Index, by the route effect of AttendanceManager or by a class
\* selection whose URL does not show the class
RedirectPending ==
  \/ pathname.route = "/attendance"
  \/ index = "mounting" /\ isAuthenticated /\ pathname.route = "/attendance/last"
  \/ /\ am # <<>>
     /\ am[1].routeEffect
     /\ ParamsClassId = ""
     /\ \/ lastClassId \in am[1].availableClasses
        \/ Cardinality(am[1].availableClasses) = 1
  \/ /\ am # <<>>
     /\ \E i \in DOMAIN am[1].selecting :
          am[1].selecting[i].params # am[1].selecting[i].class_id

\* C27: for an authenticated user, navigation that starts at /attendance or
\* /attendance/last reaches, after finitely many redirects, a route from which
\* no further redirect is issued, with and without a stored last class id.
C27_RedirectsEnd ==
  (isAuthenticated /\ pathname.route \in {"/attendance", "/attendance/last"})
     => <>[](~RedirectPending)

\* ------------------------------------------------------------------------
\* Properties of StudentManager.addStudent
\* ------------------------------------------------------------------------
\* C25: whenever addStudent succeeds with a classId given, the new student is
\* enrolled in that class: a lesson_schedules row links the two, so the next
\* enrolment load of the class returns the student; for every plannedDatesIso
\* value and also when the insert of the schedule rows returned an error.
C25_AddedStudentIsEnrolled ==
  [][\A a \in smAdded' \ smAdded :
        a.classId # "" => a.id \in { r.student_id :
                                       r \in { x \in lesson_schedules' :
                                                 x.class_id = a.classId } }]_vars

\* ------------------------------------------------------------------------
\* Properties of AttendanceGrid
\* ------------------------------------------------------------------------
\* C28: once the class or month shown by the grid has changed, no response to
\* a read sent for the selection before changes the planned dates or the
\* attendance marks of the grid: late responses of the schedules read and of
\* the attendance read are discarded.
C28_LateResponsesDiscarded ==
  [][\A i \in DOMAIN gridLoads, ok \in BOOLEAN :
        (gridLoads[i].ignore /\ (GridSchedules(i, ok) \/ GridAttendance(i, ok)))
           => UNCHANGED <<dbDatesIso, attendanceData>>]_vars

\* C29: with the grid opened and no cell toggled, Save leaves the attended
\* value of every attendance row that existed unchanged, whatever the reads
\* of the load effect returned and whatever was shown before.
C29_SaveWithoutToggleKeepsMarks ==
  gridToggles = 0 =>
    \A a \in attendance_records :
       a.id \in DOMAIN gridInitial => a.attended = gridInitial[a.id]

\* ------------------------------------------------------------------------
\* Properties of handleGenerateAndSave
\* ------------------------------------------------------------------------
\* the line items of an invoice
LinesOf(id) == { l \in invoice_line_items : l.invoice_id = id }

\* C30: while no generate-and-save is in flight, every invoice the generator
\* created has exactly one line item, with quantity * unit_price = total_price
\* = the invoice's total_amount; and when handleGenerateAndSave reports a
\* failure, no invoice row of that attempt remains in the store.
C30_InvoiceHasItsLineOrIsGone ==
  /\ [](igSave = <<>> =>
          \A i \in invoices :
             i.id \in DOMAIN savedFrom =>
                /\ Cardinality(LinesOf(i.id)) = 1
                /\ \A l \in LinesOf(i.id) :
                      /\ l.quantity * l.unit_price = l.total_price
                      /\ l.total_price = i.total_amount)
  /\ [][(igSave # <<>> /\ igSave' = <<>> /\ igToast' = "Could not save invoice")
          => \A i \in invoices' : i.id # igSave[1].invoice]_vars

====
